---- MODULE Spec2Model ----
(***************************************************************************)
(* Verification model of the LZMA/LZMA2 codec of liumingmin/xz.            *)
(*                                                                         *)
(*   SpecW  - the LZMA2 writer of lzma/writer2.go: NewWriter2Config, the   *)
(*            multi-worker mtWriter (caller, workers, output goroutine)    *)
(*            and the single-worker chunk writer.                          *)
(*   SpecR  - the LZMA2 reader of NewReader2Config: the multi-worker       *)
(*            mtReader (generator, workers, Read) and the single-worker    *)
(*            chunk reader, on chunk sequences of every shape.             *)
(*                                                                         *)
(*   SpecRG - SpecR with up to three workers on streams of up to four      *)
(*            chunks, which the generator splits into up to four tasks.    *)
(*   SpecRT - the round trip: the stream of a closed writer read by a      *)
(*            reader.                                                      *)
(*   SpecL  - the LZMA reader of lzma/reader.go: start, readSeq,           *)
(*            fillBuffer and Read over streams of decoded operations.      *)
(*   SpecB  - Writer.Write of lzbase/writer.go.                            *)
(*   SpecBL - SpecB with one more Write, without size in the header and    *)
(*            without failures of the sink.                                *)
(*   SpecC  - the chunk sequence reader lzma2.Reader: NewReader,           *)
(*            startChunk, Read, EOS and the uncompressedReader, over the   *)
(*            raw input as header and payload tokens.                      *)
(*   SpecWF - SpecW with weak fairness of every worker goroutine and of    *)
(*            the output goroutine, which the Go scheduler provides.       *)
(*   SpecWD - SpecWF with weak fairness of the goroutine that is inside    *)
(*            Write, Flush or Close as well.                               *)
(*   SpecWE - SpecW with one more byte of input, so that calls begin       *)
(*            after a sink write has failed.                               *)
(*   SpecP  - Parameters of lzma/parameters.go: normalizeReaderSizes,      *)
(*            normalizeWriterSizes and Verify over dictionary sizes in     *)
(*            and out of range.                                            *)
(*   SpecA  - Writer2Config of lzma/writer2.go: ApplyDefaults, fixSBConfig *)
(*            and Verify over configurations with and without an LZ        *)
(*            configuration.                                               *)
(*   SpecO  - the operation codec: writeLiteral and writeMatch of          *)
(*            lzbase/writer.go and readSeq of lzma/reader.go on the        *)
(*            decisions and values the encoder hands to the range coder.   *)
(*   SpecM  - writeLiteral and writeMatch of lzbase/writer.go alone, on    *)
(*            matches with distance and length in and out of range.        *)
(*   SpecV  - Properties.Verify and params.Verify of lzma/reader.go over   *)
(*            properties and dictionary sizes in and out of range.         *)
(*                                                                         *)
(* An LZMA2 stream is modelled as a sequence of chunks                     *)
(* [control, data]: the header's control class and the uncompressed        *)
(* payload the chunk decodes to.                                           *)
(***************************************************************************)
EXTENDS Integers, Sequences, FiniteSets, TLC

\* ---------------------------------------------------------------- bounds
MaxInput == 2
\* input bytes of a writer whose calls go on after a failed sink write
MaxErrInput == 3
MaxWorkers == 2
MaxBufferSize == 2
MaxFlush == 1
MaxClose == 1
\* stand-in for the 65536 bytes an LZMA2 chunk holds at most
maxChunkSize == 1

\* payload bytes of a stream handed to the reader
MaxPayload == 2
MaxRead == 2
MaxReads == 3
\* worker goroutines of a reader, and the chunks of the streams that are
\* split into more tasks than a reader has workers
MaxReadWorkers == 3
MaxTaskChunks == 4

\* the LZMA reader: declared sizes, operations per stream, Read calls
MaxSize == 2
MaxOps == 3
MaxLzReads == 3
\* stand-in for the 273 bytes a match holds at most
maxMatchLen == 2

\* lzbase.Writer: declared sizes, bytes per Write, Write calls
MaxHeaderSize == 2
MaxWriteLen == 3
MaxWrites == 3
\* Write calls on a writer whose dictionary comes to hold more than ten
\* bytes
MaxLongWrites == 4
\* stand-in for lzbase.MaxLength, the 273 bytes of the longest match
MaxLength == 2
\* lzbase.Writer: the bytes written are 0..MaxByte; the range encoder's
\* sink fails at an operation up to MaxFailAt, or never
MaxByte == 1
MaxFailAt == 2
\* stand-ins for the distance 1 << 32 of the EOS marker, which is above
\* every distance within a dictionary, and for the encoded distance of the
\* EOS marker, 1<<32 - 1
maxDistance == 16
eosDist == 15
minDistance == 1
MinLength == 2
minMatchLen == 2
allData == 1

\* lzma2.Reader: payload bytes per chunk, dictionary capacity, bytes
\* per Read, Read calls
MaxChunkLen == 2
MaxDictCap == 2
MaxReadLen == 2
MaxChunkReads == 3
MaxChunkBytes == 3

\* Properties.Verify, params.Verify: the largest LC, LP, PB and dictSize
\* tried (the smallest being -1, and 0 for dictSize)
MaxLC == 9
MaxLP == 5
MaxPB == 5
MaxHeaderDictSize == 3
\* stand-in for the 4096 bytes of the smallest dictionary
minDictSize == 2

\* Parameters: the largest DictSize and ExtraBufSize tried (the smallest
\* being -1)
MaxParamDictSize == 6
MaxParamExtraBuf == 1
\* stand-ins for MinDictSize (4096), Default.DictSize (8 MiB), MaxDictSize
\* and the 4096 bytes of the writer's extra buffer, in this order of size
MinDictSize == 2
DefaultDictSize == 4
MaxDictSize == 5
defaultExtraBufSize == 2

\* Writer2Config: the largest DictSize, window size of a supplied LZ
\* configuration, Workers and GOMAXPROCS tried
MaxCfgDictSize == 4
MaxCfgWindow == 3
MaxCfgWorkers == 2
MaxProcs == 2

\* operation codec: the largest distance of a match given to the encoder,
\* and how many operations the decoder may be behind the encoder
MaxCodecDist == 5
MaxCodecLag == 1
\* the largest distance within the dictionary of a match given to
\* writeMatch alone
MaxMatchDist == 3
\* stand-ins for minShrinkSize (1 << 16), minBufferSize (256 << 10), the
\* default WorkerBufferSize (1 << 20) and the default window size of the
\* LZ configuration, in this order of size
minShrinkSize == 2
minBufferSize == 4
defaultWorkerBufferSize == 6
lzDefaultWindowSize == 8

\* extra capacity of mtWriter.buf beyond cfg.WorkerBufferSize
sbMargin == 7

\* The caller writes the bytes base+1, base+2, ... in turn, so that every
\* byte of the input is told from every other.
Bases == {0, 1}

\* ---------------------------------------------------------------- errors
Nil == "nil"
Bytes == 0..MaxByte
errClosed == "errClosed"
errSink == "errSink"
EOF == "io.EOF"
ErrUnexpectedEOF == "io.ErrUnexpectedEOF"
errChunkSeq == "errChunkSequence"
errEOS == "errEOS"
ErrEncoding == "ErrEncoding"
errMatch == "lz.WriteMatch error"
errAgain == "errAgain"
errExceeds == "write exceeds unpackLen"
errNoData == "lzma2: Reader doesn't get data"
errHeaderByte == "lzma2: unsupported chunk header byte"
errChunkType == "lzma2: unexpected chunk type"

\* ------------------------------------------------------ sequence helpers
Min(a, b) == IF a < b THEN a ELSE b

\* F of the value v, v being evaluated once
With(v, F(_)) == CHOOSE r \in {F(x) : x \in {v}} : TRUE

Take(s, k) == SubSeq(s, 1, k)

Drop(s, k) == SubSeq(s, k + 1, Len(s))

IsPrefix(a, b) == Len(a) <= Len(b) /\ Take(b, Len(a)) = a

SeqsOf(S, lo, hi) == UNION {[1..k -> S] : k \in lo..hi}

RECURSIVE Flatten(_)
Flatten(ss) == IF ss = <<>> THEN <<>> ELSE Head(ss) \o Flatten(Tail(ss))

RECURSIVE PayloadOf(_)
PayloadOf(chunks) ==
    IF chunks = <<>> THEN <<>>
    ELSE Head(chunks).data \o PayloadOf(Tail(chunks))

\* ------------------------------------------------------------ chunk codec
\* A chunk whose compression would expand it is framed uncompressed; which
\* chunks those are is a fixed function of the payload.
Incompressible(d) == d[1] % 2 = 0

EOSChunk == [control |-> "cEOS", data |-> <<>>]

\* chunkWriter: the chunks written for `data` by a chunk writer that has
\* (first) not yet written a chunk and (props) already written properties.
RECURSIVE WriteChunks(_, _, _)
WriteChunks(data, first, props) ==
    IF data = <<>> THEN <<>>
    ELSE LET k == Min(Len(data), maxChunkSize)
             d == Take(data, k)
             unc == Incompressible(d)
             ctl == IF unc THEN (IF first THEN "cUD" ELSE "cU")
                    ELSE IF first THEN "cCSPD"
                    ELSE IF props THEN "cC" ELSE "cCSP"
         IN  <<[control |-> ctl, data |-> d]>>
                 \o WriteChunks(Drop(data, k), FALSE, props \/ ~unc)

\* w.init(buf, seq, tsk.data, props); w.FlushContext(ctx): a fresh chunk
\* writer compresses a whole task into one blob.
Compress(data) == WriteChunks(data, TRUE, FALSE)

\* Whether one of the chunks carries or follows a properties byte.
HasProps(chunks) ==
    \E i \in 1..Len(chunks) : chunks[i].control \in {"cC", "cCSP", "cCSPD"}

VARIABLES
    \* ---- writer (lzma/writer2.go)
    wcfg,        \* Writer2Config: Workers, WorkerBufferSize
    base,        \* the input is base+1, base+2, ...
    buf,         \* mtWriter.buf / pending bytes of the chunk writer
    werr,        \* mtWriter.err
    workers,     \* mtWriter.workers
    ctxDone,     \* mtWriter.ctx has been cancelled
    taskCh,      \* chan mtwTask, capacity cfg.Workers
    outCh,       \* chan mtwOutput, capacity cfg.Workers
    errCh,       \* chan error, capacity 1
    zCh,         \* the one-slot result channels, by task
    flushCh,     \* the one-slot flush channels, by flush
    sink,        \* what z has received, chunk by chunk
    sinkBy,      \* who issued each sink write
    sinkTask,    \* the task each chunk of sink came from (0: terminator)
    caller,      \* position of the goroutine calling Write/Flush/Close
    wk,          \* the worker goroutines mtwWork
    og,          \* the output goroutine mtwWriteOutput
    cw,          \* single-worker chunkWriter: has written a chunk / properties
    hist,        \* calls made so far
    submitted,   \* task payloads in submission order
    accepted,    \* bytes Write reported as written
    lastRet,     \* what the last completed call returned
    closedNil,   \* Close has returned nil
    doneOrder,   \* tasks in the order their workers delivered them
    \* ---- reader (NewReader2Config, mtReader)
    rcfg,        \* Reader2Config: Workers, WorkerBufferSize
    rin,         \* the unread rest of the compressed stream z
    rctxDone,    \* the reader's context has been cancelled
    outClosed,   \* mtReader.outCh has been closed
    gen,         \* the generator goroutine mtrGenerate
    rworkers,    \* workers started by mtrGenerate
    rwk,         \* the worker goroutines mtrWork
    rCh,         \* the one-slot reader channels tsk.rCh, by task
    mtr,         \* mtReader: err, r and the task r came from
    rd,          \* position of the goroutine calling Read/Close
    rout,        \* bytes Read has returned
    routTask,    \* the task each returned byte came from
    rtasks,      \* the chunks of each task, in the order of creation
    rdone,       \* tasks in the order their workers delivered them
    rlast,       \* what the last completed Read/Close returned, and
                 \* whether Close has been called
    rcalls       \* number of Read and Close calls made

wvars == <<wcfg, base, buf, werr, workers, ctxDone, taskCh, outCh, errCh, zCh,
           flushCh, sink, sinkBy, sinkTask, caller, wk, og, cw, hist,
           submitted, accepted, lastRet, closedNil, doneOrder>>

VARIABLES
    \* ---- LZMA reader (lzma_1/reader.go)
    lzin,        \* the stream: declared size, operations, range decoder ends
    lzr,         \* reader: dict position and unread bytes, limit, err
    lzout,       \* number of bytes Read has returned
    lzret,       \* the last return of Read
    lzcalls,     \* Read calls made
    \* ---- lzbase.Writer (lzbase/writer.go)
    bw,          \* params, Dict.end, bytes buffered and encoded, panicked
    bret,        \* the last Write call and its return
    bcalls       \* Write calls made

lvars == <<lzin, lzr, lzout, lzret, lzcalls>>

bvars == <<bw, bret, bcalls>>

VARIABLES
    \* ---- lzma2.Reader (package lzma2)
    c2z,         \* the input NewReader was given
    c2,          \* Reader: unread input, dict, err, cstate, chunkReader,
                 \* ur, decoder, and whether a header read has met the
                 \* end of the input
    c2out,       \* bytes Read has returned
    c2ret,       \* what the last call returned, the first error a Read
                 \* returned, whether the call came after it, and
                 \* whether a header read has met the end of the input
    c2calls      \* Read calls made

cvars == <<c2z, c2, c2out, c2ret, c2calls>>

VARIABLES
    \* ---- Properties.Verify, params.Verify (lzma_1/reader.go)
    vin,         \* the params value: LC, LP, PB, dictSize
    vret         \* what Properties.Verify and params.Verify returned

pvars == <<vin, vret>>

VARIABLES
    \* ---- Parameters (lzma/parameters.go)
    pm           \* the Parameters value as given and as it is now, the
                 \* methods called on it, what Verify returned

VARIABLES
    \* ---- Writer2Config (lzma/writer2.go)
    w2           \* the configuration as given and as it is now, the
                 \* methods called on it, what Verify returned

VARIABLES
    \* ---- operation codec (lzbase/writer.go, lzma_1/reader.go)
    codec        \* the encoder's and the decoder's state and registers,
                 \* the operations written and not yet read, and what
                 \* the last readSeq returned

xvars == <<pm, w2, codec>>

\* What the steps of the writer, and of the reader, leave alone.
ovarsW == <<rcfg, rin, rctxDone, outClosed, gen, rworkers, rwk, rCh, mtr, rd,
            rout, routTask, rtasks, rdone, rlast, rcalls, lvars, bvars,
            cvars, pvars, xvars>>

ovarsR == <<wcfg, base, buf, werr, workers, ctxDone, taskCh, outCh, errCh,
            zCh, flushCh, sink, sinkBy, sinkTask, caller, wk, og, cw, hist,
            submitted, accepted, lastRet, closedNil, doneOrder, lvars, bvars,
            cvars, pvars, xvars>>

rvars == <<rcfg, rin, rctxDone, outClosed, gen, rworkers, rwk, rCh, mtr, rd,
           rout, routTask, rtasks, rdone, rlast, rcalls>>

vars == <<wvars, rvars, lvars, bvars, cvars, pvars, xvars>>

Idle == [pc |-> "idle", op |-> "none", p |-> <<>>, n |-> 0, k |-> 0,
         zid |-> 0, fid |-> 0]

NoWorker == [st |-> "none", id |-> 0, data |-> <<>>]

OgRecv == [pc |-> "recv", z |-> 0, f |-> 0, data |-> <<>>]

\* NewWriter2Config: ApplyDefaults, Verify, then the chunk writer for
\* Workers = 1 or the mtWriter and its output goroutine.
NewWriter2Config(cfg) ==
    /\ wcfg = cfg
    /\ base \in Bases
    /\ buf = <<>>
    /\ werr = Nil
    /\ workers = 0
    /\ ctxDone = FALSE
    /\ taskCh = <<>>
    /\ outCh = <<>>
    /\ errCh = <<>>
    /\ zCh = <<>>
    /\ flushCh = <<>>
    /\ sink = <<>>
    /\ sinkBy = <<>>
    /\ sinkTask = <<>>
    /\ caller = Idle
    /\ wk = [i \in 1..MaxWorkers |-> NoWorker]
    /\ og = IF cfg.Workers > 1 THEN OgRecv ELSE [OgRecv EXCEPT !.pc = "none"]
    /\ cw = [first |-> TRUE, props |-> FALSE]
    /\ hist = <<>>
    /\ submitted = <<>>
    /\ accepted = <<>>
    /\ lastRet = [op |-> "none", n |-> 0, err |-> Nil]
    /\ closedNil = FALSE
    /\ doneOrder = <<>>

WriterConfigs ==
    [Workers : 1..MaxWorkers, WorkerBufferSize : 1..MaxBufferSize]

\* The reader before NewReader2Config.
\* The LZMA reader and lzbase.Writer before they are constructed.
LzmaOff ==
    /\ lzin = [size |-> 0, ops |-> <<>>, end0 |-> FALSE, endEOF |-> FALSE]
    /\ lzr = [pos |-> 0, len |-> 0, limit |-> 0, err |-> Nil, k |-> 0,
              hitAt |-> 0 - 1, last |-> "none", open |-> FALSE]
    /\ lzout = 0
    /\ lzret = [n |-> 0, err |-> Nil]
    /\ lzcalls = 0

BwOff ==
    /\ bw = [SizeInHeader |-> FALSE, Size |-> 0, EOS |-> FALSE, failAt |-> 0,
             end |-> 0, readable |-> 0, encoded |-> 0, panicked |-> FALSE,
             open |-> FALSE, data |-> <<>>,
             oc |-> [state |-> 0, rep |-> <<0, 0, 0, 0>>], ops |-> <<>>,
             closed |-> FALSE, cerr |-> "none"]
    /\ bret = [len |-> 0, end |-> 0, n |-> 0, err |-> Nil]
    /\ bcalls = 0

\* lzma2.Reader before NewReader.
NoBody == [open |-> FALSE, N |-> 0, eof |-> FALSE, err |-> Nil]

NoReader2 ==
    [open |-> FALSE, in |-> <<>>, dict |-> <<>>, err |-> Nil,
     cstate |-> "start", chunkReader |-> "nil", ur |-> NoBody,
     decoder |-> [open |-> FALSE, N |-> 0, eof |-> FALSE, err |-> Nil,
                  State |-> [props |-> 0, used |-> 0]],
     dictHead |-> 0, starts |-> <<>>, hdrEOF |-> FALSE]

NoReturn2 ==
    [op |-> "none", n |-> 0, err |-> Nil, ferr |-> Nil, late |-> FALSE,
     hdrEOF |-> FALSE]

ChunksOff ==
    /\ c2z = <<>>
    /\ c2 = NoReader2
    /\ c2out = <<>>
    /\ c2ret = NoReturn2
    /\ c2calls = 0

\* No Parameters value is in use.
PureOff ==
    /\ pm = [in |-> <<>>, p |-> <<>>, ops |-> <<>>, err |-> "none"]
    /\ w2 = [in |-> <<>>, cfg |-> <<>>, ops |-> <<>>, err |-> "none"]
    /\ codec = [on |-> FALSE]

\* No Verify call has been made.
NoVerify == [props |-> "none", params |-> "none"]

VerifyOff ==
    /\ vin = [LC |-> 0, LP |-> 0, PB |-> 0, dictSize |-> 0]
    /\ vret = NoVerify

NoTask == 0

NoReader == [data |-> <<>>, err |-> Nil, open |-> FALSE]

GenOff == [pc |-> "none", id |-> NoTask, w |-> <<>>, size |-> 0, eof |-> FALSE]

RdIdle == [pc |-> "idle", m |-> 0, n |-> 0]

ReaderOff ==
    [rcfg |-> [Workers |-> 0, WorkerBufferSize |-> 0],
     rin |-> <<>>, rctxDone |-> FALSE, outClosed |-> FALSE, gen |-> GenOff,
     rworkers |-> 0, rwk |-> [i \in 1..MaxReadWorkers |-> NoWorker],
     rCh |-> <<>>, mtr |-> [err |-> Nil, r |-> NoReader, task |-> NoTask],
     rd |-> RdIdle, rout |-> <<>>, routTask |-> <<>>, rtasks |-> <<>>,
     rdone |-> <<>>, rlast |-> [op |-> "none", n |-> 0, err |-> Nil, closed |-> FALSE],
     rcalls |-> 0]

\* The reader's variables hold the state R.
ReaderIs(R) ==
    /\ rcfg = R.rcfg
    /\ rin = R.rin
    /\ rctxDone = R.rctxDone
    /\ outClosed = R.outClosed
    /\ gen = R.gen
    /\ rworkers = R.rworkers
    /\ rwk = R.rwk
    /\ rCh = R.rCh
    /\ mtr = R.mtr
    /\ rd = R.rd
    /\ rout = R.rout
    /\ routTask = R.routTask
    /\ rtasks = R.rtasks
    /\ rdone = R.rdone
    /\ rlast = R.rlast
    /\ rcalls = R.rcalls

InitW == (\E cfg \in WriterConfigs : NewWriter2Config(cfg))
         /\ ReaderIs(ReaderOff) /\ LzmaOff /\ BwOff /\ ChunksOff
         /\ VerifyOff /\ PureOff

\* ------------------------------------------------------------- call budget
Written == Len(Flatten([i \in 1..Len(hist) |-> hist[i].p]))

Calls(op) == Cardinality({i \in 1..Len(hist) : hist[i].op = op})

MT == wcfg.Workers > 1

\* z.Write(data) of mtwWriteOutput has returned an error: the output
\* goroutine has left its loop with less than the whole blob in the sink.
SinkFailed ==
    /\ MT /\ og.pc \in {"senderr", "exit"}
    /\ Cardinality({i \in 1..Len(sinkTask) : sinkTask[i] = og.z})
          < Len(og.data)

\* What a call finds when it begins: no failed sink write, a failed sink
\* write whose error the output goroutine has yet to send, or one whose
\* error was sent on errCh.
SinkFailure ==
    IF ~SinkFailed THEN "none"
    ELSE IF og.pc = "senderr" THEN "failure" ELSE "report"

\* ----------------------------------------------------------------- returns
\* A call returns (n, err) to the caller.
Return(op, n, err) ==
    /\ caller' = Idle
    /\ lastRet' = [op |-> op, n |-> n, err |-> err]
    /\ accepted' = IF op = "Write"
                   THEN accepted \o Take(hist'[Len(hist')].p, n)
                   ELSE accepted

\* A faulty TakeErr: the error received from errCh is returned without
\* being stored in w.err.
TakeErrForgets(op, n) ==
    /\ errCh # <<>>
    /\ werr' = werr
    /\ errCh' = Tail(errCh)
    /\ ctxDone' = TRUE
    /\ Return(op, n, Head(errCh))

\* case err = <-w.errCh: w.err = err; w.cancel(); return n, err
TakeErr(op, n) ==
    /\ errCh # <<>>
    /\ werr' = Head(errCh)
    /\ errCh' = Tail(errCh)
    /\ ctxDone' = TRUE
    /\ Return(op, n, Head(errCh))

\* go mtwWork(w.ctx, w.taskCh, w.cfg); w.workers++
Spawn ==
    IF workers < wcfg.Workers
    THEN /\ workers' = workers + 1
         /\ wk' = [wk EXCEPT ![workers + 1].st = "idle"]
    ELSE UNCHANGED <<workers, wk>>

\* A faulty WriteLoop: the room left is taken from cap(w.buf), which
\* includes the extra margin, instead of cfg.WorkerBufferSize.
WriteLoopCap(b, p, n) ==
    LET k == wcfg.WorkerBufferSize + sbMargin - Len(b) IN
    IF p = <<>>
    THEN /\ buf' = b
         /\ Return("Write", n, Nil)
         /\ UNCHANGED <<workers, wk>>
    ELSE IF k >= Len(p)
    THEN /\ buf' = b \o p
         /\ Return("Write", n + Len(p), Nil)
         /\ UNCHANGED <<workers, wk>>
    ELSE /\ Spawn
         /\ buf' = b \o Take(p, k)
         /\ caller' = [pc |-> "w_task", op |-> "Write", p |-> p, n |-> n,
                       k |-> k, zid |-> 0, fid |-> 0]
         /\ UNCHANGED <<lastRet, accepted>>

\* The loop of mtWriter.Write from its head to the next channel operation
\* or return, with b the buffer, p the unwritten rest and n the count.
WriteLoop(b, p, n) ==
    LET k == wcfg.WorkerBufferSize - Len(b) IN
    IF p = <<>>
    THEN /\ buf' = b
         /\ Return("Write", n, Nil)
         /\ UNCHANGED <<workers, wk>>
    ELSE IF k >= Len(p)
    THEN /\ buf' = b \o p
         /\ Return("Write", n + Len(p), Nil)
         /\ UNCHANGED <<workers, wk>>
    ELSE /\ Spawn
         /\ buf' = b \o Take(p, k)
         /\ caller' = [pc |-> "w_task", op |-> "Write", p |-> p, n |-> n,
                       k |-> k, zid |-> 0, fid |-> 0]
         /\ UNCHANGED <<lastRet, accepted>>

\* mtWriter.Write up to its first channel operation.
mtWrite(p) ==
    /\ MT /\ caller.pc = "idle"
    /\ hist' = Append(hist, [op |-> "Write", p |-> p, after |-> SinkFailure])
    /\ IF werr # Nil
       THEN /\ Return("Write", 0, werr)
            /\ UNCHANGED <<buf, werr, workers, ctxDone, errCh, wk>>
       ELSE IF errCh # <<>>
       THEN /\ TakeErr("Write", 0)
            /\ UNCHANGED <<buf, workers, wk>>
       ELSE /\ WriteLoop(buf, p, 0)
            /\ UNCHANGED <<werr, ctxDone, errCh>>
    /\ UNCHANGED <<wcfg, base, taskCh, outCh, zCh, flushCh, sink, sinkBy, sinkTask,
                   og, cw, submitted, closedNil, doneOrder>>

\* select { case err = <-w.errCh; case w.taskCh <- mtwTask{w.buf, zCh} }
SendTask(next) ==
    /\ Len(taskCh) < wcfg.Workers
    /\ taskCh' = Append(taskCh, [id |-> Len(zCh) + 1, data |-> buf])
    /\ zCh' = Append(zCh, <<>>)
    /\ submitted' = Append(submitted, buf)
    /\ caller' = [caller EXCEPT !.pc = next, !.zid = Len(zCh) + 1]

mtWriteTask ==
    /\ caller.pc = "w_task"
    /\ UNCHANGED hist
    /\ \/ /\ TakeErr("Write", caller.n)
          /\ UNCHANGED <<taskCh, zCh, submitted>>
       \/ /\ SendTask("w_out")
          /\ UNCHANGED <<werr, errCh, ctxDone, lastRet, accepted>>
    /\ UNCHANGED <<wcfg, base, buf, workers, outCh, flushCh, sink, sinkBy, sinkTask,
                   wk, og, cw, closedNil, doneOrder>>

\* select { case err = <-w.errCh; case w.outCh <- mtwOutput{zCh: zCh} },
\* then the rest of the loop body and the loop again.
mtWriteOut ==
    /\ caller.pc = "w_out"
    /\ UNCHANGED hist
    /\ \/ /\ TakeErr("Write", caller.n)
          /\ UNCHANGED <<outCh, buf, workers, wk>>
       \/ /\ Len(outCh) < wcfg.Workers
          /\ outCh' = Append(outCh, [z |-> caller.zid, f |-> 0])
          /\ WriteLoop(<<>>, Drop(caller.p, caller.k), caller.n + caller.k)
          /\ UNCHANGED <<werr, errCh, ctxDone>>
    /\ UNCHANGED <<wcfg, base, taskCh, zCh, flushCh, sink, sinkBy, sinkTask, og, cw,
                   submitted, closedNil, doneOrder>>

\* mtWriter.Flush up to its first channel operation; Close enters it after
\* its own check of w.err.
FlushBegin(op) ==
    IF errCh # <<>>
    THEN /\ TakeErr(op, 0)
         /\ UNCHANGED <<workers, wk, flushCh>>
    ELSE /\ Spawn
         /\ flushCh' = Append(flushCh, 0)
         /\ caller' = [pc |-> IF Len(buf) > 0 THEN "f_task" ELSE "f_out",
                       op |-> op, p |-> <<>>, n |-> 0, k |-> 0, zid |-> 0,
                       fid |-> Len(flushCh) + 1]
         /\ UNCHANGED <<werr, errCh, ctxDone, lastRet, accepted>>

mtFlush ==
    /\ MT /\ caller.pc = "idle"
    /\ hist' = Append(hist, [op |-> "Flush", p |-> <<>>, after |-> SinkFailure])
    /\ IF werr # Nil
       THEN /\ Return("Flush", 0, werr)
            /\ UNCHANGED <<werr, workers, ctxDone, errCh, wk, flushCh>>
       ELSE FlushBegin("Flush")
    /\ UNCHANGED <<wcfg, base, buf, taskCh, outCh, zCh, sink, sinkBy, sinkTask, og,
                   cw, submitted, closedNil, doneOrder>>

\* A faulty mtClose: Close writes the terminator without flushing first.
mtCloseNoFlush ==
    /\ MT /\ caller.pc = "idle"
    /\ hist' = Append(hist, [op |-> "Close", p |-> <<>>, after |-> SinkFailure])
    /\ IF werr # Nil
       THEN /\ Return("Close", 0, werr)
            /\ UNCHANGED <<werr, workers, ctxDone, errCh, wk, flushCh>>
       ELSE /\ caller' = [Idle EXCEPT !.pc = "c_zero", !.op = "Close"]
            /\ UNCHANGED <<werr, workers, ctxDone, errCh, wk, flushCh,
                           lastRet, accepted>>
    /\ UNCHANGED <<wcfg, base, buf, taskCh, outCh, zCh, sink, sinkBy, sinkTask, og,
                   cw, submitted, closedNil, doneOrder>>

\* mtWriter.Close: w.err check, defer w.cancel(), then Flush.
mtClose ==
    /\ MT /\ caller.pc = "idle"
    /\ hist' = Append(hist, [op |-> "Close", p |-> <<>>, after |-> SinkFailure])
    /\ IF werr # Nil
       THEN /\ Return("Close", 0, werr)
            /\ UNCHANGED <<werr, workers, ctxDone, errCh, wk, flushCh>>
       ELSE FlushBegin("Close")
    /\ UNCHANGED <<wcfg, base, buf, taskCh, outCh, zCh, sink, sinkBy, sinkTask, og,
                   cw, submitted, closedNil, doneOrder>>

mtFlushTask ==
    /\ caller.pc = "f_task"
    /\ \/ /\ TakeErr(caller.op, 0)
          /\ UNCHANGED <<taskCh, zCh, submitted, buf>>
       \/ /\ SendTask("f_out")
          /\ buf' = <<>>
          /\ UNCHANGED <<werr, errCh, ctxDone, lastRet, accepted>>
    /\ UNCHANGED <<wcfg, base, workers, outCh, flushCh, sink, sinkBy, sinkTask, wk,
                   og, cw, hist, closedNil, doneOrder>>

\* A faulty mtFlushOut: the flush record is queued without the result
\* channel of the task Flush has just submitted.
mtFlushOutNoZ ==
    /\ caller.pc = "f_out"
    /\ \/ /\ TakeErr(caller.op, 0)
          /\ UNCHANGED outCh
       \/ /\ Len(outCh) < wcfg.Workers
          /\ outCh' = Append(outCh, [z |-> 0, f |-> caller.fid])
          /\ caller' = [caller EXCEPT !.pc = "f_wait"]
          /\ UNCHANGED <<werr, errCh, ctxDone, lastRet, accepted>>
    /\ UNCHANGED <<wcfg, base, buf, workers, taskCh, zCh, flushCh, sink,
                   sinkBy, sinkTask, wk, og, cw, hist, submitted, closedNil,
                   doneOrder>>

mtFlushOut ==
    /\ caller.pc = "f_out"
    /\ \/ /\ TakeErr(caller.op, 0)
          /\ UNCHANGED outCh
       \/ /\ Len(outCh) < wcfg.Workers
          /\ outCh' = Append(outCh, [z |-> caller.zid, f |-> caller.fid])
          /\ caller' = [caller EXCEPT !.pc = "f_wait"]
          /\ UNCHANGED <<werr, errCh, ctxDone, lastRet, accepted>>
    /\ UNCHANGED <<wcfg, base, buf, workers, taskCh, zCh, flushCh, sink, sinkBy,
                   sinkTask, wk, og, cw, hist, submitted, closedNil, doneOrder>>

\* A faulty mtFlushWait: the wait for the flush acknowledgement has a
\* default case.
mtFlushNoWait ==
    /\ caller.pc = "f_wait"
    /\ \/ /\ TakeErr(caller.op, 0)
          /\ UNCHANGED flushCh
       \/ /\ flushCh' = [flushCh EXCEPT ![caller.fid] = 0]
          /\ IF caller.op = "Close"
             THEN /\ caller' = [caller EXCEPT !.pc = "c_zero"]
                  /\ UNCHANGED <<lastRet, accepted>>
             ELSE Return("Flush", 0, Nil)
          /\ UNCHANGED <<werr, errCh, ctxDone>>
    /\ UNCHANGED <<wcfg, base, buf, workers, taskCh, outCh, zCh, sink, sinkBy,
                   sinkTask, wk, og, cw, hist, submitted, closedNil,
                   doneOrder>>

\* select { case err = <-w.errCh; case <-flushCh }; return nil. In Close
\* the terminator write follows.
mtFlushWait ==
    /\ caller.pc = "f_wait"
    /\ \/ /\ TakeErr(caller.op, 0)
          /\ UNCHANGED flushCh
       \/ /\ flushCh[caller.fid] = 1
          /\ flushCh' = [flushCh EXCEPT ![caller.fid] = 0]
          /\ IF caller.op = "Close"
             THEN /\ caller' = [caller EXCEPT !.pc = "c_zero"]
                  /\ UNCHANGED <<lastRet, accepted>>
             ELSE Return("Flush", 0, Nil)
          /\ UNCHANGED <<werr, errCh, ctxDone>>
    /\ UNCHANGED <<wcfg, base, buf, workers, taskCh, outCh, zCh, sink, sinkBy,
                   sinkTask, wk, og, cw, hist, submitted, closedNil, doneOrder>>

\* Close after Flush: w.z.Write(zero); w.err = errClosed; deferred cancel.
mtCloseZero ==
    /\ caller.pc = "c_zero"
    /\ ctxDone' = TRUE
    /\ \/ /\ sink' = Append(sink, EOSChunk)
          /\ sinkBy' = Append(sinkBy, "caller")
          /\ sinkTask' = Append(sinkTask, 0)
          /\ werr' = errClosed
          /\ closedNil' = TRUE
          /\ Return("Close", 0, Nil)
       \/ /\ werr' = errSink
          /\ Return("Close", 0, errSink)
          /\ UNCHANGED <<sink, sinkBy, sinkTask, closedNil>>
    /\ UNCHANGED <<wcfg, base, buf, workers, taskCh, outCh, errCh, zCh, flushCh, wk,
                   og, cw, hist, submitted, doneOrder>>

\* ----------------------------------------------------------------- mtwWork
\* A worker has called panic: the process is aborted, no goroutine takes
\* another step.
Panicked == \E i \in 1..MaxWorkers : wk[i].st = "panic"

Running == ~Panicked

\* A faulty mtwWorkRecv: a worker that waits for a task alone and does
\* not watch the context.
mtwWorkRecvDeaf(i) ==
    /\ wk[i].st = "idle"
    /\ taskCh # <<>>
    /\ \/ wk' = [wk EXCEPT ![i] = [st |-> "send", id |-> Head(taskCh).id,
                                   data |-> Compress(Head(taskCh).data)]]
       \/ wk' = [wk EXCEPT ![i] = [st |-> "panic", id |-> Head(taskCh).id,
                                   data |-> <<>>]]
    /\ taskCh' = Tail(taskCh)
    /\ UNCHANGED <<wcfg, base, buf, werr, workers, ctxDone, outCh, errCh, zCh,
                   flushCh, sink, sinkBy, sinkTask, caller, og, cw, hist,
                   submitted, accepted, lastRet, closedNil, doneOrder>>

\* select { case <-ctx.Done(): return; case tsk = <-taskCh }, then
\* w.init(buf, seq, tsk.data, props) and w.FlushContext(ctx) up to the
\* select that delivers the blob. A FlushContext that sees the context
\* cancelled makes the worker return, as the ctx.Done() case of that select
\* does. When w.init or w.FlushContext returns another error the worker
\* panics.
mtwWorkRecv(i) ==
    /\ wk[i].st = "idle"
    /\ \/ /\ ctxDone
          /\ wk' = [wk EXCEPT ![i].st = "exit"]
          /\ UNCHANGED taskCh
       \/ /\ taskCh # <<>>
          /\ wk' = [wk EXCEPT ![i] = [st |-> "send", id |-> Head(taskCh).id,
                                      data |-> Compress(Head(taskCh).data)]]
          /\ taskCh' = Tail(taskCh)
       \/ /\ taskCh # <<>>
          /\ wk' = [wk EXCEPT ![i] = [st |-> "panic", id |-> Head(taskCh).id,
                                      data |-> <<>>]]
          /\ taskCh' = Tail(taskCh)
    /\ UNCHANGED <<wcfg, base, buf, werr, workers, ctxDone, outCh, errCh, zCh,
                   flushCh, sink, sinkBy, sinkTask, caller, og, cw, hist,
                   submitted, accepted, lastRet, closedNil, doneOrder>>

\* select { case <-ctx.Done(): return; case tsk.zCh <- buf.Bytes() }
mtwWorkSend(i) ==
    /\ wk[i].st = "send"
    /\ \/ /\ ctxDone
          /\ wk' = [wk EXCEPT ![i].st = "exit"]
          /\ UNCHANGED <<zCh, doneOrder>>
       \/ /\ zCh[wk[i].id] = <<>>
          /\ zCh' = [zCh EXCEPT ![wk[i].id] = <<wk[i].data>>]
          /\ doneOrder' = Append(doneOrder, wk[i].id)
          /\ wk' = [wk EXCEPT ![i] = [st |-> "idle", id |-> 0, data |-> <<>>]]
    /\ UNCHANGED <<wcfg, base, buf, werr, workers, ctxDone, taskCh, outCh, errCh,
                   flushCh, sink, sinkBy, sinkTask, caller, og, cw, hist,
                   submitted, accepted, lastRet, closedNil>>

\* ---------------------------------------------------------- mtwWriteOutput
\* What follows a finished (or absent) blob write: the flush
\* acknowledgement, or the head of the loop.
AfterWrite(o) == IF o.f # 0 THEN "ack" ELSE "recv"

\* A faulty mtwOutputRecv: the output goroutine takes whichever queued
\* record has its blob ready, not the oldest one.
mtwOutputRecvReady ==
    /\ og.pc = "recv"
    /\ \/ /\ ctxDone
          /\ og' = [og EXCEPT !.pc = "exit"]
          /\ UNCHANGED outCh
       \/ \E x \in 1..Len(outCh) :
             /\ outCh[x].z # 0 => zCh[outCh[x].z] # <<>>
             /\ og' = [pc |-> IF outCh[x].z # 0 THEN "getz"
                              ELSE AfterWrite(outCh[x]),
                       z |-> outCh[x].z, f |-> outCh[x].f, data |-> <<>>]
             /\ outCh' = Take(outCh, x - 1) \o Drop(outCh, x)
    /\ UNCHANGED <<wcfg, base, buf, werr, workers, ctxDone, taskCh, errCh, zCh,
                   flushCh, sink, sinkBy, sinkTask, caller, wk, cw, hist,
                   submitted, accepted, lastRet, closedNil, doneOrder>>

\* select { case <-ctx.Done(): return; case o = <-outCh }
mtwOutputRecv ==
    /\ og.pc = "recv"
    /\ \/ /\ ctxDone
          /\ og' = [og EXCEPT !.pc = "exit"]
          /\ UNCHANGED outCh
       \/ /\ outCh # <<>>
          /\ og' = [pc |-> IF Head(outCh).z # 0 THEN "getz"
                           ELSE AfterWrite(Head(outCh)),
                    z |-> Head(outCh).z, f |-> Head(outCh).f, data |-> <<>>]
          /\ outCh' = Tail(outCh)
    /\ UNCHANGED <<wcfg, base, buf, werr, workers, ctxDone, taskCh, errCh, zCh,
                   flushCh, sink, sinkBy, sinkTask, caller, wk, cw, hist,
                   submitted, accepted, lastRet, closedNil, doneOrder>>

\* select { case <-ctx.Done(): return; case data = <-o.zCh }
mtwOutputGet ==
    /\ og.pc = "getz"
    /\ \/ /\ ctxDone
          /\ og' = [og EXCEPT !.pc = "exit"]
          /\ UNCHANGED zCh
       \/ /\ zCh[og.z] # <<>>
          /\ og' = [og EXCEPT !.pc = "write", !.data = zCh[og.z][1]]
          /\ zCh' = [zCh EXCEPT ![og.z] = <<>>]
    /\ UNCHANGED <<wcfg, base, buf, werr, workers, ctxDone, taskCh, outCh, errCh,
                   flushCh, sink, sinkBy, sinkTask, caller, wk, cw, hist,
                   submitted, accepted, lastRet, closedNil, doneOrder>>

\* z.Write(data): all of the blob, or a part of it and an error.
mtwOutputWrite ==
    /\ og.pc = "write"
    /\ \E j \in 0..Len(og.data) :
          /\ sink' = sink \o Take(og.data, j)
          /\ sinkBy' = sinkBy \o [x \in 1..j |-> "output"]
          /\ sinkTask' = sinkTask \o [x \in 1..j |-> og.z]
          /\ og' = [og EXCEPT !.pc = IF j = Len(og.data) THEN AfterWrite(og)
                                     ELSE "senderr"]
    /\ UNCHANGED <<wcfg, base, buf, werr, workers, ctxDone, taskCh, outCh, errCh,
                   zCh, flushCh, caller, wk, cw, hist, submitted, accepted,
                   lastRet, closedNil, doneOrder>>

\* A faulty mtwOutputErr: after a failed z.Write the output goroutine
\* returns without sending the error.
mtwOutputErrSilent ==
    /\ og.pc = "senderr"
    /\ og' = [og EXCEPT !.pc = "exit"]
    /\ UNCHANGED <<wcfg, base, buf, werr, workers, ctxDone, taskCh, outCh, zCh,
                   errCh, flushCh, sink, sinkBy, sinkTask, caller, wk, cw,
                   hist, submitted, accepted, lastRet, closedNil, doneOrder>>

\* select { case <-ctx.Done(): return; case errCh <- err: return }
mtwOutputErr ==
    /\ og.pc = "senderr"
    /\ \/ /\ ctxDone
          /\ UNCHANGED errCh
       \/ /\ Len(errCh) < 1
          /\ errCh' = Append(errCh, errSink)
    /\ og' = [og EXCEPT !.pc = "exit"]
    /\ UNCHANGED <<wcfg, base, buf, werr, workers, ctxDone, taskCh, outCh, zCh,
                   flushCh, sink, sinkBy, sinkTask, caller, wk, cw, hist,
                   submitted, accepted, lastRet, closedNil, doneOrder>>

\* select { case <-ctx.Done(): return; case o.flushCh <- struct{}{} }
mtwOutputAck ==
    /\ og.pc = "ack"
    /\ \/ /\ ctxDone
          /\ og' = [og EXCEPT !.pc = "exit"]
          /\ UNCHANGED flushCh
       \/ /\ flushCh[og.f] = 0
          /\ flushCh' = [flushCh EXCEPT ![og.f] = 1]
          /\ og' = OgRecv
    /\ UNCHANGED <<wcfg, base, buf, werr, workers, ctxDone, taskCh, outCh, errCh,
                   zCh, sink, sinkBy, sinkTask, caller, wk, cw, hist,
                   submitted, accepted, lastRet, closedNil, doneOrder>>

\* ------------------------------------------- chunkWriter (Workers = 1)
\* The chunk writer buffers the data and frames it chunk by chunk; only its
\* first chunk resets the dictionary. A failed sink write is latched.
cwEmit(op, data, rest, n, last) ==
    LET chunks == WriteChunks(data, cw.first, cw.props) \o last IN
    \E j \in 0..Len(chunks) :
       /\ sink' = sink \o Take(chunks, j)
       /\ sinkBy' = sinkBy \o [x \in 1..j |-> "caller"]
       /\ sinkTask' = sinkTask \o [x \in 1..j |-> 0]
       /\ IF j = Len(chunks)
          THEN /\ buf' = rest
               /\ cw' = IF data = <<>> THEN cw
                        ELSE [first |-> FALSE,
                              props |-> cw.props \/ HasProps(chunks)]
               /\ werr' = IF op = "Close" THEN errClosed ELSE Nil
               /\ closedNil' = (op = "Close")
               /\ Return(op, n, Nil)
          ELSE /\ werr' = errSink
               /\ Return(op, 0, errSink)
               /\ UNCHANGED <<buf, cw, closedNil>>

cwCall(op, p) ==
    /\ ~MT /\ caller.pc = "idle"
    /\ hist' = Append(hist, [op |-> op, p |-> p, after |-> SinkFailure])
    /\ IF werr # Nil
       THEN /\ Return(op, 0, werr)
            /\ UNCHANGED <<buf, werr, cw, sink, sinkBy, sinkTask, closedNil>>
       ELSE LET d == buf \o p
                full == IF op = "Write"
                        THEN (Len(d) \div maxChunkSize) * maxChunkSize
                        ELSE Len(d)
            IN  cwEmit(op, Take(d, full), Drop(d, full), Len(p),
                       IF op = "Close" THEN <<EOSChunk>> ELSE <<>>)
    /\ UNCHANGED <<wcfg, base, workers, ctxDone, taskCh, outCh, errCh, zCh, flushCh,
                   wk, og, submitted, doneOrder>>

\* ------------------------------------------------------------- the caller
NextBytes(k) == [i \in 1..k |-> base + Written + i]

\* Write(p) while the calls have at most max bytes in all
CallWriteUpTo(max) ==
    \E k \in 1..max :
        /\ Written + k <= max
        /\ (mtWrite(NextBytes(k)) \/ cwCall("Write", NextBytes(k)))

CallWrite == CallWriteUpTo(MaxInput)

CallFlush == Calls("Flush") < MaxFlush /\ (mtFlush \/ cwCall("Flush", <<>>))

CallClose == Calls("Close") < MaxClose /\ (mtClose \/ cwCall("Close", <<>>))

NextW ==
    \/ Running /\ CallWrite /\ UNCHANGED ovarsW
    \/ Running /\ mtWriteTask /\ UNCHANGED ovarsW
    \/ Running /\ mtWriteOut /\ UNCHANGED ovarsW
    \/ Running /\ CallFlush /\ UNCHANGED ovarsW
    \/ Running /\ CallClose /\ UNCHANGED ovarsW
    \/ Running /\ mtFlushTask /\ UNCHANGED ovarsW
    \/ Running /\ mtFlushOut /\ UNCHANGED ovarsW
    \/ Running /\ mtFlushWait /\ UNCHANGED ovarsW
    \/ Running /\ mtCloseZero /\ UNCHANGED ovarsW
    \/ Running /\ \E i \in 1..MaxWorkers : mtwWorkRecv(i) /\ UNCHANGED ovarsW
    \/ Running /\ \E i \in 1..MaxWorkers : mtwWorkSend(i) /\ UNCHANGED ovarsW
    \/ Running /\ mtwOutputRecv /\ UNCHANGED ovarsW
    \/ Running /\ mtwOutputGet /\ UNCHANGED ovarsW
    \/ Running /\ mtwOutputWrite /\ UNCHANGED ovarsW
    \/ Running /\ mtwOutputErr /\ UNCHANGED ovarsW
    \/ Running /\ mtwOutputAck /\ UNCHANGED ovarsW

SpecW == InitW /\ [][NextW]_vars

\* The steps of worker i and of the output goroutine. The Go scheduler
\* runs every goroutine that can take a step, so neither is held back for
\* ever while one of its steps stays possible.
Worker(i) ==
    Running /\ (mtwWorkRecv(i) \/ mtwWorkSend(i)) /\ UNCHANGED ovarsW

Output ==
    /\ Running
    /\ \/ mtwOutputRecv
       \/ mtwOutputGet
       \/ mtwOutputWrite
       \/ mtwOutputErr
       \/ mtwOutputAck
    /\ UNCHANGED ovarsW

SpecWF ==
    /\ SpecW
    /\ \A i \in 1..MaxWorkers : WF_vars(Worker(i))
    /\ WF_vars(Output)

\* The steps of the goroutine that is inside Write, Flush or Close: each
\* is a select with a case that can proceed, or the terminator write,
\* and the scheduler runs the goroutine while that is so.
CallerStep ==
    /\ Running
    /\ \/ mtWriteTask
       \/ mtWriteOut
       \/ mtFlushTask
       \/ mtFlushOut
       \/ mtFlushWait
       \/ mtCloseZero
    /\ UNCHANGED ovarsW

SpecWD ==
    /\ SpecW
    /\ \A i \in 1..MaxWorkers : WF_vars(Worker(i))
    /\ WF_vars(Output)
    /\ WF_vars(CallerStep)

\* The writer with up to MaxErrInput bytes of input, which lets a Write
\* begin after the blob of an earlier task has failed to reach the sink.
NextWE ==
    \/ Running /\ CallWriteUpTo(MaxErrInput) /\ UNCHANGED ovarsW
    \/ Running /\ mtWriteTask /\ UNCHANGED ovarsW
    \/ Running /\ mtWriteOut /\ UNCHANGED ovarsW
    \/ Running /\ CallFlush /\ UNCHANGED ovarsW
    \/ Running /\ CallClose /\ UNCHANGED ovarsW
    \/ Running /\ mtFlushTask /\ UNCHANGED ovarsW
    \/ Running /\ mtFlushOut /\ UNCHANGED ovarsW
    \/ Running /\ mtFlushWait /\ UNCHANGED ovarsW
    \/ Running /\ mtCloseZero /\ UNCHANGED ovarsW
    \/ Running /\ \E i \in 1..MaxWorkers : mtwWorkRecv(i) /\ UNCHANGED ovarsW
    \/ Running /\ \E i \in 1..MaxWorkers : mtwWorkSend(i) /\ UNCHANGED ovarsW
    \/ Running /\ mtwOutputRecv /\ UNCHANGED ovarsW
    \/ Running /\ mtwOutputGet /\ UNCHANGED ovarsW
    \/ Running /\ mtwOutputWrite /\ UNCHANGED ovarsW
    \/ Running /\ mtwOutputErr /\ UNCHANGED ovarsW
    \/ Running /\ mtwOutputAck /\ UNCHANGED ovarsW

SpecWE == InitW /\ [][NextWE]_vars

\* ------------------------------------------------- reference encodings
\* The task payloads a serial replay of the calls h cuts, b being the
\* buffer: a task whenever the buffer is full and more data arrives, and
\* one for a non-empty buffer at Flush and Close. The replay ends at Close.
RECURSIVE TasksOf(_, _, _)
TasksOf(h, b, size) ==
    IF h = <<>> THEN <<>>
    ELSE LET c == Head(h)
             k == size - Len(b)
         IN  IF c.op = "Write"
             THEN IF k >= Len(c.p)
                  THEN TasksOf(Tail(h), b \o c.p, size)
                  ELSE <<b \o Take(c.p, k)>>
                       \o TasksOf(<<[op |-> "Write", p |-> Drop(c.p, k)]>>
                                      \o Tail(h), <<>>, size)
             ELSE (IF b = <<>> THEN <<>> ELSE <<b>>)
                  \o (IF c.op = "Close" THEN <<>>
                      ELSE TasksOf(Tail(h), <<>>, size))

Blobs(tasks) == Flatten([i \in 1..Len(tasks) |-> Compress(tasks[i])])

\* The stream of a closed multi-worker writer, as a function of the calls
\* and the worker buffer size alone.
EncodeMT(h, size) == Blobs(TasksOf(h, <<>>, size)) \o <<EOSChunk>>

\* The stream of a closed single-worker writer: a serial replay of the
\* calls h through one chunk writer, b being its pending bytes.
RECURSIVE EncodeSingle(_, _, _, _)
EncodeSingle(h, b, first, props) ==
    IF h = <<>> THEN <<>>
    ELSE LET c == Head(h)
             d == b \o c.p
             full == IF c.op = "Write"
                     THEN (Len(d) \div maxChunkSize) * maxChunkSize
                     ELSE Len(d)
             cs == WriteChunks(Take(d, full), first, props)
         IN  cs \o (IF c.op = "Close" THEN <<EOSChunk>>
                    ELSE EncodeSingle(Tail(h), Drop(d, full),
                                      first /\ cs = <<>>,
                                      props \/ HasProps(cs)))

BlobChunks == SelectSeq(sink, LAMBDA c : c.control # "cEOS")

\* ------------------------------------------------------------------ C1
\* C1: the multi-worker writer's sink receives the blobs in the order
\* their tasks were submitted, whatever the order the workers finish in:
\* the chunks of an earlier task all precede those of a later one, and the
\* sink holds a prefix of the blobs concatenated in submission order.
C1_SubmissionOrder ==
    MT =>
      /\ \A i, j \in 1..Len(sinkTask) :
            (i < j /\ sinkTask[i] # 0 /\ sinkTask[j] # 0)
                => sinkTask[i] <= sinkTask[j]
      /\ IsPrefix(BlobChunks, Blobs(submitted))

\* Task 2 was delivered by its worker before task 1, and both blobs are in
\* the sink.
C1_Witness ==
    /\ MT
    /\ Len(doneOrder) >= 2 /\ doneOrder[1] = 2 /\ doneOrder[2] = 1
    /\ \E i, j \in 1..Len(sinkTask) : sinkTask[i] = 1 /\ sinkTask[j] = 2

C5_CloseTerminates ==
    (closedNil /\ MT) =>
      /\ sink = Blobs(submitted) \o <<EOSChunk>>
      /\ PayloadOf(sink) = accepted
      /\ Cardinality({i \in 1..Len(sink) : sink[i] = EOSChunk}) = 1

\* Close returned nil after data was written, and a further call was made.
C5_Witness ==
    /\ closedNil /\ MT
    /\ accepted # <<>>
    /\ hist[Len(hist)].op # "Close"
    /\ caller.pc = "idle"

\* ------------------------------------------------------------------ C6
FlushReturnedNil ==
    /\ MT /\ caller.pc = "idle"
    /\ lastRet.op = "Flush" /\ lastRet.err = Nil

\* C6: when mtWriter.Flush has returned nil the buffer is empty, no task
\* waits in a queue, a worker or the output goroutine, and the blob of every
\* accepted byte is in the sink.
C6_FlushDrains ==
    FlushReturnedNil =>
      /\ buf = <<>>
      /\ taskCh = <<>> /\ outCh = <<>>
      /\ \A i \in 1..MaxWorkers : wk[i].st # "send"
      /\ \A t \in 1..Len(zCh) : zCh[t] = <<>>
      /\ og.pc = "recv"
      /\ sink = Blobs(submitted)
      /\ PayloadOf(sink) = accepted

\* Flush returned nil with two tasks' worth of data accepted before it.
C6_Witness ==
    /\ FlushReturnedNil
    /\ Len(submitted) >= 2
    /\ Len(accepted) = MaxInput

\* ====================================================== the LZMA2 reader
MTR == rcfg.Workers > 1

\* ----------------------------------------------------------- chunkReader
\* The chunk sequence state machine: a chunk sequence starts with a
\* dictionary reset, and its first compressed chunk carries properties.
ChunkNext(cstate, control) ==
    IF control = "cEOS" THEN "stop"
    ELSE IF cstate = "start"
    THEN (IF control = "cUD" THEN "dict"
          ELSE IF control = "cCSPD" THEN "props" ELSE "error")
    ELSE IF cstate = "dict"
    THEN (IF control \in {"cU", "cUD"} THEN "dict"
          ELSE IF control \in {"cCSP", "cCSPD"} THEN "props" ELSE "error")
    ELSE "props"

\* What a chunk reader started on `chunks` in state cstate delivers: the
\* payload up to the end or the first error, and the error that ends it.
\* With noEOS the sequence may end without an end-of-stream chunk.
RECURSIVE DecodeRun(_, _, _)
DecodeRun(chunks, cstate, noEOS) ==
    IF chunks = <<>>
    THEN [data |-> <<>>, err |-> IF noEOS THEN EOF ELSE ErrUnexpectedEOF]
    ELSE LET nxt == ChunkNext(cstate, Head(chunks).control) IN
         IF nxt = "stop" THEN [data |-> <<>>, err |-> EOF]
         ELSE IF nxt = "error" THEN [data |-> <<>>, err |-> errChunkSeq]
         ELSE LET rest == DecodeRun(Tail(chunks), nxt, noEOS) IN
              [data |-> Head(chunks).data \o rest.data, err |-> rest.err]

\* chr.init(z, dictSize) / chr.reset(z): a reader over a chunk sequence.
ChunkReader(chunks, noEOS) ==
    LET d == DecodeRun(chunks, "start", noEOS) IN
    [data |-> d.data, err |-> d.err, open |-> TRUE]

\* &errReader{err: err}
ErrReader(err) == [data |-> <<>>, err |-> err, open |-> TRUE]

\* ------------------------------------------------------------ splitStream
\* A splitStream that forgets the chunks it has copied when the run does
\* not fit into size bytes.
RECURSIVE splitStreamForgets(_, _, _, _)
splitStreamForgets(w, z, size, n) ==
    IF z = <<>>
    THEN [n |-> 0, ok |-> FALSE, err |-> ErrUnexpectedEOF, w |-> w, z |-> z]
    ELSE LET hdr == Head(z) IN
         IF hdr.control \in {"cUD", "cCSPD"} /\ n > 0
         THEN [n |-> n, ok |-> TRUE, err |-> Nil, w |-> w, z |-> z]
         ELSE IF hdr.control = "cEOS"
         THEN [n |-> n, ok |-> TRUE, err |-> EOF, w |-> w, z |-> z]
         ELSE IF n + Len(hdr.data) > size
         THEN [n |-> 0, ok |-> FALSE, err |-> EOF, w |-> <<>>, z |-> z]
         ELSE splitStreamForgets(Append(w, hdr), Tail(z), size,
                                 n + Len(hdr.data))

\* splitStream(w, z, size) with n bytes counted and w copied so far: the
\* returned n, ok and err, what w has received and what z still holds. The
\* header of the chunk that ends the run is peeked, not consumed.
RECURSIVE splitStream(_, _, _, _)
splitStream(w, z, size, n) ==
    IF z = <<>>
    THEN [n |-> 0, ok |-> FALSE, err |-> ErrUnexpectedEOF, w |-> w, z |-> z]
    ELSE LET hdr == Head(z) IN
         IF hdr.control \in {"cUD", "cCSPD"} /\ n > 0
         THEN [n |-> n, ok |-> TRUE, err |-> Nil, w |-> w, z |-> z]
         ELSE IF hdr.control = "cEOS"
         THEN [n |-> n, ok |-> TRUE, err |-> EOF, w |-> w, z |-> z]
         ELSE IF n + Len(hdr.data) > size
         THEN [n |-> 0, ok |-> FALSE, err |-> EOF, w |-> w, z |-> z]
         ELSE splitStream(Append(w, hdr), Tail(z), size, n + Len(hdr.data))

\* ------------------------------------------------------- NewReader2Config
\* ApplyDefaults, Verify, then the chunk reader for Workers <= 1 or
\* newMTReader and its generator goroutine.
NewReader2Config(z, cfg) ==
    [ReaderOff EXCEPT
       !.rcfg = cfg,
       !.rin = z,
       !.gen = IF cfg.Workers > 1 THEN [GenOff EXCEPT !.pc = "loop"]
               ELSE GenOff,
       !.mtr = [err |-> Nil,
                r |-> IF cfg.Workers > 1 THEN NoReader
                      ELSE ChunkReader(z, FALSE),
                task |-> NoTask]]

\* ------------------------------------------------------------ mtrGenerate
\* The head of the loop: ctx.Err(), splitStream and what follows it up to
\* the next channel operation.
mtrGenerateSplit ==
    /\ gen.pc = "loop"
    /\ IF rctxDone
       THEN /\ gen' = [gen EXCEPT !.pc = "exit"]
            /\ UNCHANGED <<rin, rCh, rtasks, rworkers, rwk>>
       ELSE LET s == splitStream(<<>>, rin, rcfg.WorkerBufferSize, 0)
                id == Len(rCh) + 1
            IN  /\ rin' = s.z
                /\ IF s.err \notin {Nil, EOF}
                   THEN /\ rCh' = Append(rCh, <<ErrReader(s.err)>>)
                        /\ gen' = [pc |-> "out_err", id |-> id, w |-> <<>>,
                                   size |-> 0, eof |-> FALSE]
                        /\ rtasks' = Append(rtasks, [z |-> <<>>, size |-> 0 - 1])
                        /\ UNCHANGED <<rworkers, rwk>>
                   ELSE IF s.ok
                   THEN /\ IF rworkers < rcfg.Workers
                           THEN /\ rworkers' = rworkers + 1
                                /\ rwk' = [rwk EXCEPT
                                             ![rworkers + 1].st = "idle"]
                           ELSE UNCHANGED <<rworkers, rwk>>
                        /\ rCh' = Append(rCh, <<>>)
                        /\ gen' = [pc |-> "tsk", id |-> id, w |-> s.w,
                                   size |-> s.n, eof |-> s.err = EOF]
                        /\ rtasks' = Append(rtasks, [z |-> s.w, size |-> s.n])
                   ELSE /\ rCh' = Append(rCh, <<>>)
                        /\ gen' = [pc |-> "ser_rch", id |-> id,
                                   w |-> s.w \o s.z, size |-> 0 - 1,
                                   eof |-> FALSE]
                        /\ rtasks' = Append(rtasks, [z |-> s.w \o s.z,
                                                      size |-> 0 - 1])
                        /\ UNCHANGED <<rworkers, rwk>>
    /\ UNCHANGED <<rcfg, rctxDone, outClosed, mtr, rd, rout, routTask, rdone,
                   rlast, rcalls>>

\* mtrWork from chr.reset(tsk.z) to the reader it will deliver: noEOS is
\* set, the chunks are copied to a buffer, and an error of the copy
\* replaces the buffer by an errReader.
mtrWorkDecode(z) ==
    LET c == ChunkReader(z, TRUE) IN
    IF c.err # EOF THEN ErrReader(c.err) ELSE c

\* A generator that goes on to the next task once a worker has taken the
\* task, without the send of its record to outCh.
mtrGenerateTaskNoOut(i) ==
    /\ gen.pc = "tsk"
    /\ rwk[i].st = "idle"
    /\ gen' = [gen EXCEPT !.pc = IF gen.eof THEN "exit" ELSE "loop"]
    /\ rwk' = [rwk EXCEPT ![i] =
                 [st |-> "send", id |-> gen.id,
                  data |-> mtrWorkDecode(gen.w)]]
    /\ UNCHANGED <<rcfg, rin, rctxDone, outClosed, rworkers, rCh, mtr, rd,
                   rout, routTask, rtasks, rdone, rlast, rcalls>>

\* select { case <-ctx.Done(): return; case tskCh <- tsk }: tskCh is
\* unbuffered, so the send is the receive of an idle worker i, which then
\* decodes the task up to the select that delivers its reader (mtrWork:
\* chr.reset(tsk.z), noEOS, io.Copy).
mtrGenerateTask(i) ==
    /\ gen.pc = "tsk"
    /\ rwk[i].st = "idle"
    /\ gen' = [gen EXCEPT !.pc = "out"]
    /\ rwk' = [rwk EXCEPT ![i] =
                 [st |-> "send", id |-> gen.id,
                  data |-> mtrWorkDecode(gen.w)]]
    /\ UNCHANGED <<rcfg, rin, rctxDone, outClosed, rworkers, rCh, mtr, rd,
                   rout, routTask, rtasks, rdone, rlast, rcalls>>

\* The ctx.Done() case of each select of mtrGenerate.
mtrGenerateCancelled ==
    /\ gen.pc \in {"tsk", "out", "out_err", "ser_rch", "out_ser"}
    /\ rctxDone
    /\ gen' = [gen EXCEPT !.pc = "exit"]
    /\ UNCHANGED <<rcfg, rin, rctxDone, outClosed, rworkers, rwk, rCh, mtr,
                   rd, rout, routTask, rtasks, rdone, rlast, rcalls>>

\* The serial case: select { case <-ctx.Done(): return; case tsk.rCh <- chr }
mtrGenerateSerial ==
    /\ gen.pc = "ser_rch"
    /\ rCh' = [rCh EXCEPT ![gen.id] = <<ChunkReader(gen.w, FALSE)>>]
    /\ gen' = [gen EXCEPT !.pc = "out_ser"]
    /\ UNCHANGED <<rcfg, rin, rctxDone, outClosed, rworkers, rwk, mtr, rd,
                   rout, routTask, rtasks, rdone, rlast, rcalls>>

\* ---------------------------------------------------------------- mtrWork
\* select { case <-ctx.Done(): return; case tsk = <-tskCh } with the
\* context cancelled.
mtrWorkCancelled(i) ==
    /\ rwk[i].st \in {"idle", "send"}
    /\ rctxDone
    /\ rwk' = [rwk EXCEPT ![i].st = "exit"]
    /\ UNCHANGED <<rcfg, rin, rctxDone, outClosed, gen, rworkers, rCh, mtr,
                   rd, rout, routTask, rtasks, rdone, rlast, rcalls>>

\* select { case <-ctx.Done(): return; case tsk.rCh <- r }
mtrWorkSend(i) ==
    /\ rwk[i].st = "send"
    /\ rCh[rwk[i].id] = <<>>
    /\ rCh' = [rCh EXCEPT ![rwk[i].id] = <<rwk[i].data>>]
    /\ rdone' = Append(rdone, rwk[i].id)
    /\ rwk' = [rwk EXCEPT ![i] = [st |-> "idle", id |-> 0, data |-> <<>>]]
    /\ UNCHANGED <<rcfg, rin, rctxDone, outClosed, gen, rworkers, mtr, rd,
                   rout, routTask, rtasks, rlast, rcalls>>

\* ----------------------------------------------------------- mtReader.Read
RReturn(op, n, err) ==
    /\ rd' = RdIdle
    /\ rlast' = [op |-> op, n |-> n, err |-> err,
                  closed |-> rlast.closed \/ op = "Close"]

\* One r.r.Read(p[n:]) and the rest of the loop of mtReader.Read, with m
\* the length of p: the bytes read, and whether Read returns or goes on to
\* receive the next task from r.outCh.
ReadFrom(m, n, r) ==
    LET k == Min(m - n, Len(r.data))
        d == Take(r.data, k)
        r2 == [r EXCEPT !.data = Drop(r.data, k)]
    IN  IF n + k = m
        THEN [st |-> "ret", n |-> m, err |-> Nil, r |-> r2, out |-> d]
        ELSE IF r.err = EOF
        THEN [st |-> "next", n |-> n + k, err |-> Nil, r |-> NoReader,
              out |-> d]
        ELSE [st |-> "ret", n |-> n + k, err |-> r.err, r |-> r2, out |-> d]

\* The loop of mtReader.Read from its head to the receive from r.outCh or
\* the return.
ReadLoop(m, n, r, task) ==
    IF ~r.open
    THEN /\ rd' = [pc |-> "r_out", m |-> m, n |-> n]
         /\ mtr' = [mtr EXCEPT !.r = NoReader]
         /\ UNCHANGED <<rout, routTask, rlast>>
    ELSE LET x == ReadFrom(m, n, r) IN
         /\ rout' = rout \o x.out
         /\ routTask' = routTask \o [i \in 1..Len(x.out) |-> task]
         /\ IF x.st = "ret"
            THEN /\ mtr' = [err |-> x.err, r |-> x.r, task |-> task]
                 /\ RReturn("Read", x.n, x.err)
            ELSE /\ mtr' = [mtr EXCEPT !.r = NoReader]
                 /\ rd' = [pc |-> "r_out", m |-> m, n |-> x.n]
                 /\ UNCHANGED rlast

mtRead(m) ==
    /\ MTR /\ rd.pc = "idle"
    /\ rcalls' = rcalls + 1
    /\ IF mtr.err # Nil
       THEN /\ RReturn("Read", 0, mtr.err)
            /\ UNCHANGED <<mtr, rout, routTask>>
       ELSE ReadLoop(m, 0, mtr.r, mtr.task)
    /\ UNCHANGED <<rcfg, rin, rctxDone, outClosed, gen, rworkers, rwk, rCh,
                   rtasks, rdone>>

\* tsk, ok := <-r.outCh with ok: outCh is unbuffered, so the receive is
\* the send of the generator, which goes on (or closes outCh and returns).
mtReadTask ==
    /\ rd.pc = "r_out"
    /\ gen.pc \in {"out", "out_err", "out_ser"}
    /\ rd' = [rd EXCEPT !.pc = "r_rch"]
    /\ mtr' = [mtr EXCEPT !.task = gen.id]
    /\ IF gen.pc = "out" /\ ~gen.eof
       THEN /\ gen' = [gen EXCEPT !.pc = "loop"]
            /\ UNCHANGED outClosed
       ELSE /\ gen' = [gen EXCEPT !.pc = "exit"]
            /\ outClosed' = TRUE
    /\ UNCHANGED <<rcfg, rin, rctxDone, rworkers, rwk, rCh, rout, routTask,
                   rtasks, rdone, rlast, rcalls>>

\* tsk, ok := <-r.outCh with !ok: r.err = io.EOF, and r.cancel() when
\* nothing has been read.
mtReadClosed ==
    /\ rd.pc = "r_out"
    /\ outClosed
    /\ mtr' = [mtr EXCEPT !.err = EOF]
    /\ IF rd.n = 0
       THEN /\ rctxDone' = TRUE
            /\ RReturn("Read", 0, EOF)
       ELSE /\ RReturn("Read", rd.n, Nil)
            /\ UNCHANGED rctxDone
    /\ UNCHANGED <<rcfg, rin, outClosed, gen, rworkers, rwk, rCh, rout,
                   routTask, rtasks, rdone, rcalls>>

\* A Read that takes the reader of whichever task has delivered one.
mtReadReaderAny ==
    /\ rd.pc = "r_rch"
    /\ \E t \in 1..Len(rCh) :
         /\ rCh[t] # <<>>
         /\ rCh' = [rCh EXCEPT ![t] = <<>>]
         /\ ReadLoop(rd.m, rd.n, rCh[t][1], t)
    /\ UNCHANGED <<rcfg, rin, rctxDone, outClosed, gen, rworkers, rwk, rtasks,
                   rdone, rcalls>>

\* r.r = <-tsk.rCh, then the loop again.
mtReadReader ==
    /\ rd.pc = "r_rch"
    /\ rCh[mtr.task] # <<>>
    /\ rCh' = [rCh EXCEPT ![mtr.task] = <<>>]
    /\ ReadLoop(rd.m, rd.n, rCh[mtr.task][1], mtr.task)
    /\ UNCHANGED <<rcfg, rin, rctxDone, outClosed, gen, rworkers, rwk, rtasks,
                   rdone, rcalls>>

\* mtReader.Close
mtReaderClose ==
    /\ MTR /\ rd.pc = "idle"
    /\ rcalls' = rcalls + 1
    /\ IF mtr.err = errClosed
       THEN /\ RReturn("Close", 0, errClosed)
            /\ UNCHANGED <<mtr, rctxDone>>
       ELSE /\ rctxDone' = TRUE
            /\ mtr' = [mtr EXCEPT !.err = errClosed]
            /\ RReturn("Close", 0, Nil)
    /\ UNCHANGED <<rcfg, rin, outClosed, gen, rworkers, rwk, rCh, rout,
                   routTask, rtasks, rdone>>

\* ----------------------------------- the single-worker reader (Workers <= 1)
\* io.NopCloser(&cr): Read is the chunk reader's Read.
crRead(m) ==
    /\ ~MTR /\ mtr.r.open /\ rd.pc = "idle"
    /\ rcalls' = rcalls + 1
    /\ LET k == Min(m, Len(mtr.r.data)) IN
       /\ rout' = rout \o Take(mtr.r.data, k)
       /\ routTask' = routTask \o [i \in 1..k |-> NoTask]
       /\ mtr' = [mtr EXCEPT !.r.data = Drop(mtr.r.data, k)]
       /\ RReturn("Read", k, IF k = 0 THEN mtr.r.err ELSE Nil)
    /\ UNCHANGED <<rcfg, rin, rctxDone, outClosed, gen, rworkers, rwk, rCh,
                   rtasks, rdone>>

\* io.NopCloser(&cr): Close does nothing.
crClose ==
    /\ ~MTR /\ mtr.r.open /\ rd.pc = "idle"
    /\ rcalls' = rcalls + 1
    /\ RReturn("Close", 0, Nil)
    /\ UNCHANGED <<rcfg, rin, rctxDone, outClosed, gen, rworkers, rwk, rCh,
                   mtr, rout, routTask, rtasks, rdone>>

CallRead ==
    /\ rcalls < MaxReads
    /\ \E m \in 1..MaxRead : mtRead(m) \/ crRead(m)

CallReaderClose == rcalls < MaxReads /\ (mtReaderClose \/ crClose)

NextR ==
    \/ mtrGenerateSplit /\ UNCHANGED ovarsR
    \/ \E i \in 1..MaxReadWorkers : mtrGenerateTask(i) /\ UNCHANGED ovarsR
    \/ mtrGenerateCancelled /\ UNCHANGED ovarsR
    \/ mtrGenerateSerial /\ UNCHANGED ovarsR
    \/ \E i \in 1..MaxReadWorkers : mtrWorkCancelled(i) /\ UNCHANGED ovarsR
    \/ \E i \in 1..MaxReadWorkers : mtrWorkSend(i) /\ UNCHANGED ovarsR
    \/ CallRead /\ UNCHANGED ovarsR
    \/ mtReadTask /\ UNCHANGED ovarsR
    \/ mtReadClosed /\ UNCHANGED ovarsR
    \/ mtReadReader /\ UNCHANGED ovarsR
    \/ CallReaderClose /\ UNCHANGED ovarsR

\* ------------------------------------------------- the reader's inputs
Controls == {"cU", "cUD", "cC", "cCSP", "cCSPD"}

ChunkShapes == [control : Controls, size : 1..maxChunkSize]

\* The chunk sequence of the given shapes, its payload being the bytes
\* from+1, from+2, ...
RECURSIVE Payloaded(_, _)
Payloaded(shapes, from) ==
    IF shapes = <<>> THEN <<>>
    ELSE <<[control |-> Head(shapes).control,
            data |-> [i \in 1..Head(shapes).size |-> from + i]]>>
         \o Payloaded(Tail(shapes), from + Head(shapes).size)

RECURSIVE TotalSize(_)
TotalSize(shapes) ==
    IF shapes = <<>> THEN 0 ELSE Head(shapes).size + TotalSize(Tail(shapes))

\* Chunk sequences of every shape with up to MaxPayload payload bytes, with
\* and without end-of-stream chunk.
Streams ==
    {Payloaded(sh, 0) \o t :
        sh \in {x \in SeqsOf(ChunkShapes, 0, MaxPayload) :
                   TotalSize(x) <= MaxPayload},
        t \in {<<>>, <<EOSChunk>>}}

ReaderConfigs ==
    [Workers : 1..MaxWorkers, WorkerBufferSize : 1..MaxBufferSize]

WriterOff == NewWriter2Config([Workers |-> 1, WorkerBufferSize |-> 1]) /\ base = 0

InitR ==
    /\ WriterOff /\ LzmaOff /\ BwOff /\ ChunksOff /\ VerifyOff /\ PureOff
    /\ \E z \in Streams, cfg \in ReaderConfigs :
         ReaderIs(NewReader2Config(z, cfg))

SpecR == InitR /\ [][NextR]_vars

\* ------------------------------------------------------------ round trip
\* The stream a writer has closed is handed to a new reader, as in
\* TestReader2: NewReader2Config(buf, rcfg) once w.Close() has returned nil.
OpenReader ==
    /\ closedNil /\ caller.pc = "idle"
    /\ rcfg.Workers = 0
    /\ \E cfg \in ReaderConfigs :
         LET R == NewReader2Config(sink, cfg) IN
         /\ rcfg' = R.rcfg
         /\ rin' = R.rin
         /\ gen' = R.gen
         /\ mtr' = R.mtr
    /\ UNCHANGED <<rctxDone, outClosed, rworkers, rwk, rCh, rd, rout,
                   routTask, rtasks, rdone, rlast, rcalls>>
    /\ UNCHANGED ovarsR

NextRT == NextW \/ OpenReader \/ NextR

SpecRT == InitW /\ [][NextRT]_vars

\* ------------------------------------------------ properties of the reader
\* The bytes the reader of a task delivers.
TaskData(tsk) ==
    IF tsk.size >= 0 THEN mtrWorkDecode(tsk.z).data
    ELSE ChunkReader(tsk.z, FALSE).data

\* The bytes Read has returned that came from task t.
ReturnedOf(t) ==
    LET idx == {i \in 1..Len(rout) : routTask[i] = t}
        RECURSIVE pick(_)
        pick(i) == IF i > Len(rout) THEN <<>>
                   ELSE (IF i \in idx THEN <<rout[i]>> ELSE <<>>) \o pick(i + 1)
    IN  pick(1)

\* C2: the multi-worker reader returns the output of the tasks in the order
\* the generator created them, whatever the order in which the workers
\* finish: the returned bytes are grouped by ascending task, each task's
\* bytes are a prefix of its output, and a task whose successor has
\* returned a byte has returned all of its output.
C2_StreamOrder ==
    MTR =>
      /\ \A i, j \in 1..Len(rout) : i < j => routTask[i] <= routTask[j]
      /\ \A t \in 1..Len(rtasks) :
           /\ IsPrefix(ReturnedOf(t), TaskData(rtasks[t]))
           /\ (\E i \in 1..Len(rout) : routTask[i] > t)
                => ReturnedOf(t) = TaskData(rtasks[t])

\* The second task's worker delivers before the first task's worker, and
\* Read has returned bytes of both tasks.
C2_Witness ==
    /\ MTR
    /\ Len(rdone) >= 2 /\ rdone[1] = 2 /\ rdone[2] = 1
    /\ \E i, j \in 1..Len(rout) : routTask[i] = 1 /\ routTask[j] = 2

\* ---------------------------------------------- properties of the round trip
\* A Read of the reader opened on the closed writer's stream has returned
\* an error, and the reader had not been closed.
ReadEnded ==
    /\ rcfg.Workers > 0 /\ rd.pc = "idle"
    /\ rlast.op = "Read" /\ rlast.err \notin {Nil, errClosed}

\* C3: round trip. For every input and every combination of writer and
\* reader worker counts and buffer sizes, the reader opened on the stream
\* of a writer whose Close returned nil returns only bytes of the input, in
\* order, and the error that ends the reading is io.EOF, returned when
\* exactly the input has been returned.
C3_RoundTrip ==
    rcfg.Workers > 0 =>
      /\ IsPrefix(rout, accepted)
      /\ ReadEnded => (rlast.err = EOF /\ rout = accepted)

\* A multi-worker writer's stream, read to io.EOF by a
\* multi-worker reader whose buffer is smaller than the writer's, so that
\* the reader falls back to the serial chunk reader.
C3_Witness ==
    /\ ReadEnded /\ rlast.err = EOF
    /\ MT /\ MTR
    /\ rcfg.WorkerBufferSize < wcfg.WorkerBufferSize
    /\ \E t \in 1..Len(rtasks) : rtasks[t].size < 0
    /\ Len(accepted) = MaxInput /\ rout = accepted

\* ========================================================= the LZMA reader
\* The stream after the header is the sequence of operations readSeq
\* decodes from it: a literal, a match of 1..maxMatchLen bytes or the EOS
\* marker, each with what rd.possiblyAtEnd() answers once it is decoded.
\* end0 is the answer before the first operation, endEOF the answer once
\* the input has run out.
LzOps ==
    [kind : {"lit", "eos"}, len : {1}, end : BOOLEAN]
    \cup [kind : {"match"}, len : 1..maxMatchLen, end : BOOLEAN]

LzStreams ==
    [size : (0 - 1)..MaxSize, ops : SeqsOf(LzOps, 0, MaxOps),
     end0 : BOOLEAN, endEOF : BOOLEAN]

\* capacity of the dictionary buffer; it holds at least one longest match
dictCap == maxMatchLen + 1

\* r.dict.Available()
Available(r) == dictCap - r.len

\* r.rd.possiblyAtEnd() when k operations have been decoded
possiblyAtEnd(in, k) ==
    IF k = 0 THEN in.end0
    ELSE IF k > Len(in.ops) THEN in.endEOF
    ELSE in.ops[k].end

\* reader.start(z, uncompressedSize) on a new dictionary; size -1 stands
\* for eosSize, the unknown size.
start(in) ==
    [pos |-> 0, len |-> 0,
     limit |-> IF in.size < 0 THEN 0 - 1 ELSE 0 + in.size,
     err |-> Nil, k |-> 0,
     hitAt |-> IF in.size = 0 THEN 0 ELSE 0 - 1,
     last |-> "none", open |-> TRUE]

\* readSeq: the next operation of the stream, io.EOF when the input has
\* run out and errEOS for the EOS marker.
readSeq(in, k) ==
    IF k + 1 > Len(in.ops) THEN [err |-> EOF, MatchLen |-> 0, n |-> 0]
    ELSE LET op == in.ops[k + 1] IN
         IF op.kind = "eos" THEN [err |-> errEOS, MatchLen |-> 0, n |-> 0]
         ELSE IF op.kind = "lit" THEN [err |-> Nil, MatchLen |-> 0, n |-> 1]
         ELSE [err |-> Nil, MatchLen |-> op.len, n |-> op.len]

\* A fillBuffer that takes the end of the input for the end of the stream
\* whenever the range decoder may be at its end.
readSeqErrorLax(err, atEnd, s, pos) ==
    IF err = errEOS
    THEN (IF atEnd /\ (s < 0 \/ s = pos) THEN EOF ELSE err)
    ELSE IF err = EOF
    THEN (IF ~atEnd THEN ErrUnexpectedEOF ELSE err)
    ELSE err

\* fillBuffer, the error of readSeq: the switch that turns errEOS into
\* io.EOF and io.EOF into io.ErrUnexpectedEOF.
readSeqError(err, atEnd, s, pos) ==
    IF err = errEOS
    THEN (IF atEnd /\ (s < 0 \/ s = pos) THEN EOF ELSE err)
    ELSE IF err = EOF
    THEN (IF ~atEnd \/ s # pos THEN ErrUnexpectedEOF ELSE err)
    ELSE err

\* fillBuffer, the limit reached: io.EOF at a possible end of the range
\* decoder, otherwise one more readSeq, which must give the EOS marker and
\* leave the range decoder at a possible end.
atLimit(in, r) ==
    IF possiblyAtEnd(in, r.k) THEN [r EXCEPT !.err = EOF]
    ELSE LET serr == readSeq(in, r.k).err IN
         [r EXCEPT !.k = r.k + 1,
                   !.last = IF serr = EOF THEN "eof"
                            ELSE IF serr = errEOS THEN "eos" ELSE "op",
                   !.err = IF serr # errEOS \/ ~possiblyAtEnd(in, r.k + 1)
                           THEN ErrEncoding ELSE EOF]

\* fillBuffer: the reader it leaves; its return value is the reader's err,
\* nil when the loop ends because the dictionary is full. hitAt and last
\* record the operation that brought the position to the limit and the
\* outcome of the last readSeq.
RECURSIVE fillBuffer(_, _)
fillBuffer(in, r) ==
    IF r.err # Nil THEN r
    ELSE IF Available(r) < maxMatchLen THEN r
    ELSE LET seq == readSeq(in, r.k)
             k1 == r.k + 1
         IN  IF seq.err # Nil
             THEN [r EXCEPT !.k = k1,
                            !.last = IF seq.err = EOF THEN "eof" ELSE "eos",
                            !.err = readSeqError(seq.err,
                                                 possiblyAtEnd(in, k1),
                                                 r.limit, r.pos)]
             ELSE IF seq.MatchLen > 0 /\ r.pos = 0
             THEN [r EXCEPT !.k = k1, !.last = "op", !.err = errMatch]
             ELSE LET w == [r EXCEPT !.k = k1, !.last = "op",
                                     !.pos = r.pos + seq.n,
                                     !.len = r.len + seq.n]
                      h == IF w.pos = w.limit /\ w.hitAt < 0
                           THEN [w EXCEPT !.hitAt = k1] ELSE w
                  IN  IF h.limit = h.pos THEN atLimit(in, h)
                      ELSE fillBuffer(in, h)

\* reader.Read(p) with len(p) = m and n bytes read so far: the reader it
\* leaves, n and err.
RECURSIVE lzmaRead(_, _, _, _)
lzmaRead(in, r, m, n) ==
    LET k == Min(r.len, m - n)
        r1 == [r EXCEPT !.len = r.len - k]
    IN  IF n + k = m THEN [r |-> r1, n |-> m, err |-> Nil]
        ELSE LET r2 == fillBuffer(in, r1) IN
             IF r2.err # Nil /\ r2.len = 0
             THEN [r |-> r2, n |-> n + k, err |-> r2.err]
             ELSE lzmaRead(in, r2, m, n + k)

CallLzmaRead ==
    /\ lzr.open /\ lzcalls < MaxLzReads
    /\ \E m \in 1..MaxRead :
         LET x == lzmaRead(lzin, lzr, m, 0) IN
         /\ lzr' = x.r
         /\ lzout' = lzout + x.n
         /\ lzret' = [n |-> x.n, err |-> x.err]
    /\ lzcalls' = lzcalls + 1
    /\ UNCHANGED <<lzin, wvars, rvars, bvars, cvars, pvars, xvars>>

InitL ==
    /\ WriterOff /\ ReaderIs(ReaderOff) /\ BwOff /\ ChunksOff /\ VerifyOff /\ PureOff
    /\ lzin \in LzStreams
    /\ lzr = start(lzin)
    /\ lzout = 0
    /\ lzret = [n |-> 0, err |-> Nil]
    /\ lzcalls = 0

NextL == CallLzmaRead

SpecL == InitL /\ [][NextL]_vars

\* --------------------------------------------- properties of the LZMA reader
\* C7: a reader started with a known size S stops after exactly S bytes:
\* the dictionary position never exceeds the uncompressed limit and the
\* caller never receives more than S bytes, for every operation stream.
C7_StopsAtSize ==
    lzin.size >= 0 => (lzr.pos <= lzr.limit /\ lzout <= lzin.size)

\* The result the stream prescribes for a reader that has produced exactly
\* Size bytes when k operations are decoded.
AtSizeResult(in, k) ==
    IF possiblyAtEnd(in, k) THEN EOF
    ELSE IF k + 1 <= Len(in.ops) /\ in.ops[k + 1].kind = "eos"
            /\ possiblyAtEnd(in, k + 1)
    THEN EOF ELSE ErrEncoding

\* C8: a reader with known size that has produced exactly Size bytes ends
\* with io.EOF at a possible end of the range decoder, otherwise decodes
\* exactly one more operation and ends with io.EOF only if that is the EOS
\* marker at a possible end, and with ErrEncoding in every other case; no
\* further output byte is produced.
C8_EndAtSize ==
    (lzin.size >= 0 /\ lzr.hitAt >= 0 /\ lzcalls > 0) =>
      /\ lzr.err = AtSizeResult(lzin, lzr.hitAt)
      /\ lzr.pos = lzr.limit
      /\ lzr.k <= lzr.hitAt + 1
      /\ lzret.err # Nil => lzret.err = lzr.err

\* C9: with unknown size the reader ends with io.EOF only after the EOS
\* marker has been decoded with the range decoder at a possible end; when
\* the input runs out before that, it ends with io.ErrUnexpectedEOF.
C9_UnknownSize ==
    lzin.size < 0 =>
      /\ lzr.limit = 0 - 1
      /\ lzr.err = EOF =>
           (lzr.last = "eos" /\ lzin.ops[lzr.k].kind = "eos"
            /\ possiblyAtEnd(lzin, lzr.k))
      /\ lzr.last = "eof" => lzr.err = ErrUnexpectedEOF
      /\ lzret.err = EOF => lzr.err = EOF
      /\ lzret.err # Nil => lzret.err = lzr.err

\* The input runs out with the range decoder at a possible end after two
\* bytes were decoded, and Read has returned io.ErrUnexpectedEOF.
C9_Witness ==
    /\ lzin.size < 0
    /\ lzr.last = "eof" /\ possiblyAtEnd(lzin, lzr.k)
    /\ lzout >= 2
    /\ lzret.err = ErrUnexpectedEOF

\* ============================================================ lzbase.Writer
\* The operation codec of a new writer: context state 0 and the four
\* repetition registers rep[0..3], here rep[1..4], all 0.
NewOpCodec == [state |-> 0, rep |-> <<0, 0, 0, 0>>]

\* The writer InitWriter leaves for the parameters Size, SizeInHeader and
\* EOS. data holds the bytes written into the dictionary, of which the last
\* readable ones are not yet encoded; ops holds the operations encoded so
\* far, each with the decisions written to the range encoder. failAt is
\* the operation at which the range encoder's sink fails, 0 for never.
InitWriter(params) ==
    [SizeInHeader |-> params.SizeInHeader, Size |-> params.Size,
     EOS |-> params.EOS, failAt |-> params.failAt, end |-> 0,
     readable |-> 0, encoded |-> 0, panicked |-> FALSE, open |-> TRUE,
     data |-> <<>>, oc |-> NewOpCodec, ops |-> <<>>, closed |-> FALSE,
     cerr |-> "none"]

\* capacity of the dictionary buffer of the WriterDict
bufCap == MaxLength

\* bw.Dict.Write(q) with len(q) = m: the dictionary takes what fits into
\* its buffer and answers errAgain for the rest.
DictWrite(b, m) ==
    LET k == Min(m, bufCap - b.readable) IN
    [b |-> [b EXCEPT !.end = b.end + k, !.readable = b.readable + k],
     k |-> k, err |-> IF k < m THEN errAgain ELSE Nil]

\* oc.updateStateLiteral, updateStateMatch, updateStateRep and
\* updateStateShortRep, of the encoder's and of the decoder's state alike
updateState(kind, s) ==
    CASE kind = "literal" -> IF s < 4 THEN 0 ELSE IF s < 10 THEN s - 3 ELSE s - 6
      [] kind = "match" -> IF s < 7 THEN 7 ELSE 10
      [] kind = "rep" -> IF s < 7 THEN 8 ELSE 11
      [] kind = "shortrep" -> IF s < 7 THEN 9 ELSE 11

\* What an operation writes to the range encoder: the decisions isMatch,
\* isRep, isRepG0, isRepG0Long, isRepG1, isRepG2 and the values given to
\* the literal codec, the length codec, the repetition length codec and the
\* distance codec; -1 for what is not written.
NoSym ==
    [isMatch |-> 0 - 1, isRep |-> 0 - 1, isRepG0 |-> 0 - 1,
     isRepG0Long |-> 0 - 1, isRepG1 |-> 0 - 1, isRepG2 |-> 0 - 1,
     lit |-> 0 - 1, len |-> 0 - 1, repLen |-> 0 - 1, dist |-> 0 - 1]

iverson(ok) == IF ok THEN 1 ELSE 0

\* writeLiteral(l) on the operation codec oc
writeLiteral(oc, l) ==
    [err |-> Nil,
     oc |-> [oc EXCEPT !.state = updateState("literal", @)],
     sym |-> [NoSym EXCEPT !.isMatch = 0, !.lit = l.b]]

\* A faulty writeMatch: a simple match puts the distance into rep[0]
\* without moving the registers along.
writeMatchNoShift(oc, m) ==
    LET dist == m.distance - minDistance
        r == oc.rep
        G == {g \in 0..3 : r[g + 1] = dist}
        g == IF G = {} THEN 4 ELSE CHOOSE x \in G : \A y \in G : x <= y
        n == m.length - MinLength
        s1 == [NoSym EXCEPT !.isMatch = 1, !.isRep = iverson(g < 4)]
    IN
    IF ~(minDistance <= m.distance /\ m.distance <= maxDistance)
    THEN [err |-> "distance out of range", oc |-> oc, sym |-> NoSym]
    ELSE IF /\ ~(MinLength <= m.length /\ m.length <= MaxLength)
            /\ ~(dist = r[1] /\ m.length = 1)
    THEN [err |-> "length out of range", oc |-> oc, sym |-> NoSym]
    ELSE IF g = 4
    THEN \* simple match
         [err |-> Nil,
          oc |-> [state |-> updateState("match", oc.state),
                  rep |-> <<dist, r[2], r[3], r[4]>>],
          sym |-> [s1 EXCEPT !.len = n, !.dist = dist]]
    ELSE IF g = 0
    THEN IF m.length = 1
         THEN [err |-> Nil,
               oc |-> [oc EXCEPT !.state = updateState("shortrep", @)],
               sym |-> [s1 EXCEPT !.isRepG0 = 0, !.isRepG0Long = 0]]
         ELSE [err |-> Nil,
               oc |-> [oc EXCEPT !.state = updateState("rep", @)],
               sym |-> [s1 EXCEPT !.isRepG0 = 0, !.isRepG0Long = 1,
                                  !.repLen = n]]
    ELSE \* g in {1,2,3}
         [err |-> Nil,
          oc |-> [state |-> updateState("rep", oc.state),
                  rep |-> <<dist, r[1],
                            IF g # 1 THEN r[2] ELSE r[3],
                            IF g = 3 THEN r[3] ELSE r[4]>>],
          sym |-> [s1 EXCEPT !.isRepG0 = 1, !.isRepG1 = iverson(g # 1),
                             !.isRepG2 = IF g # 1 THEN iverson(g # 2)
                                         ELSE 0 - 1,
                             !.repLen = n]]

\* A faulty writeMatch: a match of length 1 is accepted at every distance.
writeMatchAnyShort(oc, m) ==
    LET dist == m.distance - minDistance
        r == oc.rep
        G == {g \in 0..3 : r[g + 1] = dist}
        g == IF G = {} THEN 4 ELSE CHOOSE x \in G : \A y \in G : x <= y
        n == m.length - MinLength
        s1 == [NoSym EXCEPT !.isMatch = 1, !.isRep = iverson(g < 4)]
    IN
    IF ~(minDistance <= m.distance /\ m.distance <= maxDistance)
    THEN [err |-> "distance out of range", oc |-> oc, sym |-> NoSym]
    ELSE IF /\ ~(MinLength <= m.length /\ m.length <= MaxLength)
            /\ ~(m.length = 1)
    THEN [err |-> "length out of range", oc |-> oc, sym |-> NoSym]
    ELSE IF g = 4
    THEN \* simple match
         [err |-> Nil,
          oc |-> [state |-> updateState("match", oc.state),
                  rep |-> <<dist, r[1], r[2], r[3]>>],
          sym |-> [s1 EXCEPT !.len = n, !.dist = dist]]
    ELSE IF g = 0
    THEN IF m.length = 1
         THEN [err |-> Nil,
               oc |-> [oc EXCEPT !.state = updateState("shortrep", @)],
               sym |-> [s1 EXCEPT !.isRepG0 = 0, !.isRepG0Long = 0]]
         ELSE [err |-> Nil,
               oc |-> [oc EXCEPT !.state = updateState("rep", @)],
               sym |-> [s1 EXCEPT !.isRepG0 = 0, !.isRepG0Long = 1,
                                  !.repLen = n]]
    ELSE \* g in {1,2,3}
         [err |-> Nil,
          oc |-> [state |-> updateState("rep", oc.state),
                  rep |-> <<dist, r[1],
                            IF g # 1 THEN r[2] ELSE r[3],
                            IF g = 3 THEN r[3] ELSE r[4]>>],
          sym |-> [s1 EXCEPT !.isRepG0 = 1, !.isRepG1 = iverson(g # 1),
                             !.isRepG2 = IF g # 1 THEN iverson(g # 2)
                                         ELSE 0 - 1,
                             !.repLen = n]]

\* writeMatch(m) on the operation codec oc
writeMatch(oc, m) ==
    LET dist == m.distance - minDistance
        r == oc.rep
        G == {g \in 0..3 : r[g + 1] = dist}
        g == IF G = {} THEN 4 ELSE CHOOSE x \in G : \A y \in G : x <= y
        n == m.length - MinLength
        s1 == [NoSym EXCEPT !.isMatch = 1, !.isRep = iverson(g < 4)]
    IN
    IF ~(minDistance <= m.distance /\ m.distance <= maxDistance)
    THEN [err |-> "distance out of range", oc |-> oc, sym |-> NoSym]
    ELSE IF /\ ~(MinLength <= m.length /\ m.length <= MaxLength)
            /\ ~(dist = r[1] /\ m.length = 1)
    THEN [err |-> "length out of range", oc |-> oc, sym |-> NoSym]
    ELSE IF g = 4
    THEN \* simple match
         [err |-> Nil,
          oc |-> [state |-> updateState("match", oc.state),
                  rep |-> <<dist, r[1], r[2], r[3]>>],
          sym |-> [s1 EXCEPT !.len = n, !.dist = dist]]
    ELSE IF g = 0
    THEN IF m.length = 1
         THEN [err |-> Nil,
               oc |-> [oc EXCEPT !.state = updateState("shortrep", @)],
               sym |-> [s1 EXCEPT !.isRepG0 = 0, !.isRepG0Long = 0]]
         ELSE [err |-> Nil,
               oc |-> [oc EXCEPT !.state = updateState("rep", @)],
               sym |-> [s1 EXCEPT !.isRepG0 = 0, !.isRepG0Long = 1,
                                  !.repLen = n]]
    ELSE \* g in {1,2,3}
         [err |-> Nil,
          oc |-> [state |-> updateState("rep", oc.state),
                  rep |-> <<dist, r[1],
                            IF g # 1 THEN r[2] ELSE r[3],
                            IF g = 3 THEN r[3] ELSE r[4]>>],
          sym |-> [s1 EXCEPT !.isRepG0 = 1, !.isRepG1 = iverson(g # 1),
                             !.isRepG2 = IF g # 1 THEN iverson(g # 2)
                                         ELSE 0 - 1,
                             !.repLen = n]]

lit(b) == [kind |-> "lit", b |-> b, distance |-> 0, length |-> 1]

match(distance, length) ==
    [kind |-> "match", b |-> 0, distance |-> distance, length |-> length]

\* bw.Dict.EqualBytes(off1, off2, max): how many bytes, at most max, the
\* dictionary holds alike from off1 and from off2 on
EqualBytes(b, off1, off2, max) ==
    LET same(k) == \A i \in 0..(k - 1) :
                      /\ off1 + i < b.end /\ off2 + i < b.end
                      /\ b.data[off1 + i + 1] = b.data[off2 + i + 1]
    IN  CHOOSE k \in 0..max : same(k) /\ (k = max \/ ~same(k + 1))

\* potentialOffsets(p): the distances 1 to 10, the offsets of the hash
\* table, the distances of the repetition registers 3 to 0. The dictionary
\* holds all the data written (start = 0), so that the hash table has no
\* offset that is not already among the distances 1 to 10.
potentialOffsets(b) ==
    LET head == b.end - b.readable
        near == [i \in 1..10 |-> head - i]
        reps == [j \in 1..4 |-> head - (b.oc.rep[5 - j] + minDistance)]
        in(off) == 0 <= off
    IN  SelectSeq(near, in) \o SelectSeq(reps, in)

\* bestMatch(offsets): the longest match, of the offsets of equal length
\* the last one; a match of length 1 only at the distance of rep[0]
bestMatch(b, offsets) ==
    LET head == b.end - b.readable
        best(n) == {i \in 1..Len(offsets) :
                      /\ n[i] > 0
                      /\ \A j \in 1..Len(offsets) :
                            n[j] < n[i] \/ (n[j] = n[i] /\ j <= i)}
    IN  With([i \in 1..Len(offsets) |->
                EqualBytes(b, head, offsets[i], MaxLength)], LAMBDA n :
          With(best(n), LAMBDA I :
            IF I = {} THEN [err |-> "no match found", m |-> match(0, 0)]
            ELSE LET i == CHOOSE x \in I : TRUE IN
                 IF /\ n[i] = 1
                    /\ offsets[i] # head - (b.oc.rep[1] + minDistance)
                 THEN [err |-> "no match found", m |-> match(0, 0)]
                 ELSE [err |-> Nil, m |-> match(head - offsets[i], n[i])]))

\* findOp(): the operation for the head of the dictionary
findOp(b) ==
    LET head == b.end - b.readable IN
    IF b.readable <= 0 THEN [err |-> "empty buffer", op |-> lit(0)]
    ELSE With(bestMatch(b, potentialOffsets(b)), LAMBDA m :
           IF m.err # Nil
           THEN [err |-> Nil, op |-> lit(b.data[head + 1])]
           ELSE [err |-> Nil, op |-> m.m])

\* writeOp(op): the operation is encoded unless the range encoder's sink
\* fails; it is recorded with what was written and the codec it leaves,
\* and with the end of the dictionary and the codec it was found for
writeOp(b, op, eos) ==
    IF Len(b.ops) + 1 = b.failAt THEN [err |-> errSink, b |-> b]
    ELSE With(IF op.kind = "match" THEN writeMatch(b.oc, op)
              ELSE writeLiteral(b.oc, op), LAMBDA w :
           IF w.err # Nil THEN [err |-> w.err, b |-> b]
           ELSE [err |-> Nil,
                 b |-> [b EXCEPT !.oc = w.oc,
                                 !.ops = Append(@, [op |-> op,
                                                    sym |-> w.sym,
                                                    eos |-> eos,
                                                    end |-> b.end,
                                                    before |-> b.oc])]])

\* writeEOS(): the match of the largest distance and the smallest length
writeEOS(b) == writeOp(b, match(maxDistance, MinLength), TRUE)

\* A faulty discardOp: the head moves over one byte whatever the length
\* of the operation.
discardOpOneByte(b, op) ==
    LET n == Min(1, b.readable) IN
    [err |-> IF n < 1 THEN errAgain ELSE Nil,
     b |-> [b EXCEPT !.readable = @ - n, !.encoded = @ + n]]

\* discardOp(op): bw.Dict.Copy moves the head over the bytes of op
discardOp(b, op) ==
    LET n == Min(op.length, b.readable) IN
    [err |-> IF n < op.length THEN errAgain ELSE Nil,
     b |-> [b EXCEPT !.readable = @ - n, !.encoded = @ + n]]

\* process(flags): operations are encoded while more than lowMark bytes are
\* readable in the dictionary.
RECURSIVE process(_, _)
process(b, flags) ==
    LET lowMark == IF flags = allData THEN 0 ELSE MaxLength - 1 IN
    IF ~(b.readable > lowMark) THEN [err |-> Nil, b |-> b]
    ELSE With(findOp(b), LAMBDA f :
           IF f.err # Nil THEN [err |-> f.err, b |-> b]
           ELSE With(writeOp(b, f.op, FALSE), LAMBDA w :
                  IF w.err # Nil THEN w
                  ELSE With(discardOp(w.b, f.op), LAMBDA d :
                         IF d.err # Nil THEN d
                         ELSE process(d.b, flags))))

\* The slice expression p[:j] for a slice of length and capacity m: its
\* length, or a run-time panic when j is out of range.
SliceTo(m, j) == IF j < 0 \/ j > m THEN "panic" ELSE "ok"

\* The loop of Write over the bytes of p, n of them written.
RECURSIVE writeLoop(_, _, _)
writeLoop(b, p, n) ==
    IF n >= Len(p) THEN [b |-> b, n |-> n, err |-> Nil]
    ELSE With(DictWrite(b, Len(p) - n), LAMBDA w :
           With(process([w.b EXCEPT
                           !.data = @ \o SubSeq(p, n + 1, n + w.k)], 0),
                LAMBDA x :
                  IF x.err # Nil
                  THEN [b |-> x.b, n |-> n + w.k, err |-> x.err]
                  ELSE writeLoop(x.b, p, n + w.k)))

\* Writer.Write(p): the writer it leaves, n and err.
Write(b, p) ==
    LET end == b.end + Len(p) IN
    IF b.SizeInHeader /\ end > b.Size
    THEN IF SliceTo(Len(p), b.Size - end) = "panic"
         THEN [b |-> [b EXCEPT !.panicked = TRUE], n |-> 0, err |-> "panic"]
         ELSE With(writeLoop(b, SubSeq(p, 1, b.Size - end), 0), LAMBDA x :
                [b |-> x.b, n |-> x.n,
                 err |-> IF x.err # Nil THEN x.err ELSE errExceeds])
    ELSE writeLoop(b, p, 0)

\* A Close that writes the EOS marker before the buffered data is encoded.
CloseMarkerFirst(b) ==
    With(IF b.EOS THEN writeEOS(b) ELSE [err |-> Nil, b |-> b], LAMBDA e :
      IF e.err # Nil THEN [e.b EXCEPT !.cerr = e.err]
      ELSE With(process(e.b, allData), LAMBDA x :
             IF x.err # Nil THEN [x.b EXCEPT !.cerr = x.err]
             ELSE [x.b EXCEPT !.closed = TRUE, !.cerr = Nil]))

\* Writer.Close(): all data is encoded, the EOS marker written if asked
\* for, the range encoder closed and then the dictionary.
Close(b) ==
    With(process(b, allData), LAMBDA x :
      IF x.err # Nil THEN [x.b EXCEPT !.cerr = x.err]
      ELSE With(IF b.EOS THEN writeEOS(x.b) ELSE [err |-> Nil, b |-> x.b],
                LAMBDA e :
                  IF e.err # Nil THEN [e.b EXCEPT !.cerr = e.err]
                  ELSE [e.b EXCEPT !.closed = TRUE, !.cerr = Nil]))

CallWriterWriteUpTo(max) ==
    /\ bw.open /\ ~bw.panicked /\ ~bw.closed /\ bcalls < max
    /\ \E m \in 0..MaxWriteLen : \E p \in [1..m -> Bytes] :
         \E x \in {Write(bw, p)} :
         /\ bw' = x.b
         /\ bret' = [len |-> m, end |-> bw.end, n |-> x.n, err |-> x.err]
    /\ bcalls' = bcalls + 1
    /\ UNCHANGED <<wvars, rvars, lvars, cvars, pvars, xvars>>

CallWriterClose ==
    /\ bw.open /\ ~bw.panicked /\ ~bw.closed /\ bw.cerr = "none"
    /\ bw' = Close(bw)
    /\ UNCHANGED <<bret, bcalls, wvars, rvars, lvars, cvars, pvars, xvars>>

CallWriterWrite == CallWriterWriteUpTo(MaxWrites)

WriterParams ==
    [SizeInHeader : BOOLEAN, Size : 0..MaxHeaderSize, EOS : BOOLEAN,
     failAt : 0..MaxFailAt]

InitB ==
    /\ WriterOff /\ ReaderIs(ReaderOff) /\ LzmaOff /\ ChunksOff
    /\ VerifyOff /\ PureOff
    /\ \E params \in WriterParams : bw = InitWriter(params)
    /\ bret = [len |-> 0, end |-> 0, n |-> 0, err |-> Nil]
    /\ bcalls = 0

NextB == CallWriterWrite \/ CallWriterClose

SpecB == InitB /\ [][NextB]_vars

\* C10: with SizeInHeader set, a Write that would bring the bytes written
\* above Size accepts and encodes only the bytes up to Size, returns their
\* count with the write-exceeds-size error, and does not panic.
C10_WriteBeyondSize ==
    (bw.SizeInHeader /\ bcalls > 0 /\ bret.end + bret.len > bw.Size) =>
      /\ ~bw.panicked
      /\ bret.n = bw.Size - bret.end
      /\ bret.err = errExceeds
      /\ bw.end <= bw.Size /\ bw.encoded <= bw.Size

\* C22: a Close that returns nil has encoded all the data buffered in the
\* dictionary and closed the range encoder; with EOS set the last operation
\* written is the EOS marker, a simple match of the largest distance and of
\* length 2. The EOS marker is written only with EOS set, only by Close and
\* only as the last operation; no operation that process derives from the
\* data is the EOS marker.
C22_CloseWritesEOS ==
    LET marker(o) == /\ o.sym.isMatch = 1 /\ o.sym.isRep = 0
                     /\ o.sym.dist = maxDistance - minDistance
                     /\ o.sym.len + MinLength = 2
        n == Len(bw.ops)
    IN  /\ bw.cerr = Nil =>
              /\ bw.readable = 0 /\ bw.closed
              /\ bw.EOS => (n > 0 /\ marker(bw.ops[n]) /\ bw.ops[n].eos)
        /\ \A i \in 1..n :
              /\ marker(bw.ops[i]) =>
                    /\ bw.ops[i].eos /\ i = n /\ bw.cerr = Nil
                    /\ (bw.EOS \/ ~bw.SizeInHeader)
              /\ ~bw.ops[i].eos =>
                    (~marker(bw.ops[i]) /\ bw.ops[i].op.distance < maxDistance)

\* Close has returned nil with EOS set after a literal and a match were
\* encoded.
C22_Witness ==
    /\ bw.cerr = Nil /\ bw.EOS
    /\ \E i, j \in 1..Len(bw.ops) :
          /\ bw.ops[i].op.kind = "lit" /\ bw.ops[j].op.kind = "match"
          /\ ~bw.ops[j].eos

\* C11: for every reader NewReader2Config returns, single-worker and
\* multi-worker, a Read that follows a Close returns the Closed error and
\* delivers no data.
C11_ReadAfterClose ==
    (rcfg.Workers > 0 /\ rd.pc = "idle" /\ rlast.op = "Read" /\ rlast.closed)
      => (rlast.err = errClosed /\ rlast.n = 0)

\* ========================================================== lzma2.Reader
\* The raw input of the reader is a sequence of tokens: a chunk header
\* [t |-> "hdr", ctype, size] and, for each payload byte of the chunk, a
\* token [t |-> "byte", b]. A compressed chunk is taken to hold as many
\* compressed bytes as it decodes to.
ChunkTypes == {"cU", "cUD", "cL", "cLR", "cLRN", "cLRND"}

Hdr(ctype, size, props) ==
    [t |-> "hdr", ctype |-> ctype, size |-> size, props |-> props]

EOSToken == [t |-> "hdr", ctype |-> "cEOS", size |-> 0, props |-> 0]

\* What a chunk header read makes of a payload byte: an unsupported header
\* byte, a header cut short by the end of the input, or, of a zero byte,
\* the end-of-stream chunk.
HeaderGuesses == {"bad", "short", "eos"}

\* readChunkHeader(r.r)
readChunkHeader(in, g) ==
    IF in = <<>>
    THEN [err |-> EOF, hdr |-> EOSToken, in |-> in]
    ELSE IF Head(in).t = "hdr"
    THEN [err |-> Nil, hdr |-> Head(in), in |-> Tail(in)]
    ELSE IF g = "eos"
    THEN [err |-> Nil, hdr |-> EOSToken, in |-> Tail(in)]
    ELSE [err |-> IF g = "bad" THEN errHeaderByte ELSE ErrUnexpectedEOF,
          hdr |-> EOSToken, in |-> Tail(in)]

\* chunkState.next: start, after a dictionary reset ("R": properties are
\* still required), after a properties reset ("L"), stop.
next(cstate, ctype) ==
    IF ctype = "cEOS" THEN "stop"
    ELSE IF cstate = "start"
    THEN (IF ctype = "cUD" THEN "R"
          ELSE IF ctype = "cLRND" THEN "L" ELSE "error")
    ELSE IF cstate = "R"
    THEN (IF ctype \in {"cUD", "cU"} THEN "R"
          ELSE IF ctype \in {"cLRN", "cLRND"} THEN "L" ELSE "error")
    ELSE IF ctype = "cUD" THEN "R" ELSE "L"

uncompressed(ctype) == ctype = "cU" \/ ctype = "cUD"

\* newUncompressedReader(r, dict, size)
newUncompressedReader(size) ==
    [open |-> TRUE, N |-> size, eof |-> FALSE, err |-> Nil]

\* (ur *uncompressedReader) Reopen(r, size): ur.err is left as it is
Reopen(ur, size) == [ur EXCEPT !.eof = FALSE, !.N = size]

\* lzma.NewState(props): the probability state for the properties, with no
\* byte decoded under it; State.Reset() keeps the properties
NewState(props) == [props |-> props, used |-> 0]

\* lzma.NewDecoder(br, state, dict, size), decoder.Reopen(br, size)
NewDecoder(state, size) ==
    [open |-> TRUE, N |-> size, eof |-> FALSE, err |-> Nil, State |-> state]

\* A chunk start that forgets the state reset of cLR.
chunkStateKeeps(S, h) ==
    IF ~S.decoder.open THEN NewState(h.props)
    ELSE IF h.ctype \in {"cLRN", "cLRND"} THEN NewState(h.props)
    ELSE S.decoder.State

\* The probability state of the decoder for a compressed chunk of header
\* h: of a new decoder, and after the switch on header.ctype of an old one
chunkState(S, h) ==
    IF ~S.decoder.open THEN NewState(h.props)
    ELSE IF h.ctype = "cLR" THEN [S.decoder.State EXCEPT !.used = 0]
    ELSE IF h.ctype \in {"cLRN", "cLRND"} THEN NewState(h.props)
    ELSE S.decoder.State

\* The reader T that startChunk makes of S for the header h, with the
\* record of this chunk start: the dictionary and the probability state
\* before and after.
started(S, T, h) ==
    [T EXCEPT !.starts =
        Append(@, [ctype |-> h.ctype, props |-> h.props,
                   first |-> ~S.decoder.open,
                   dict0 |-> S.dictHead, dict1 |-> T.dictHead,
                   st0 |-> S.decoder.State, st1 |-> T.decoder.State])]

\* A faulty startChunk: the io.EOF of the header read is passed on as it
\* is.
startChunkPassesEOF(S, g) ==
    LET S0 == [S EXCEPT !.chunkReader = "nil"]
        h == readChunkHeader(S0.in, g)
        S1 == [S0 EXCEPT !.in = h.in, !.hdrEOF = @ \/ h.err = EOF]
        c == next(S1.cstate, h.hdr.ctype)
        S2 == [S1 EXCEPT !.cstate = c]
        S3 == IF h.hdr.ctype \in {"cUD", "cLRND"}
              THEN [S2 EXCEPT !.dict = <<>>, !.dictHead = 0] ELSE S2
    IN  IF h.err # Nil
        THEN [s |-> S1, err |-> h.err]
        ELSE IF c = "error" THEN [s |-> S1, err |-> errChunkType]
        ELSE IF c = "stop" THEN [s |-> S2, err |-> EOF]
        ELSE IF uncompressed(h.hdr.ctype)
        THEN [s |-> started(S, [S3 EXCEPT
                                  !.ur = IF S3.ur.open
                                         THEN Reopen(S3.ur, h.hdr.size)
                                         ELSE newUncompressedReader(h.hdr.size),
                                  !.chunkReader = "ur"], h.hdr),
              err |-> Nil]
        ELSE [s |-> started(S, [S3 EXCEPT
                                  !.decoder = NewDecoder(chunkState(S3, h.hdr),
                                                         h.hdr.size),
                                  !.chunkReader = "decoder"], h.hdr),
              err |-> Nil]

\* (r *Reader) startChunk()
startChunk(S, g) ==
    LET S0 == [S EXCEPT !.chunkReader = "nil"]
        h == readChunkHeader(S0.in, g)
        S1 == [S0 EXCEPT !.in = h.in, !.hdrEOF = @ \/ h.err = EOF]
        c == next(S1.cstate, h.hdr.ctype)
        S2 == [S1 EXCEPT !.cstate = c]
        S3 == IF h.hdr.ctype \in {"cUD", "cLRND"}
              THEN [S2 EXCEPT !.dict = <<>>, !.dictHead = 0] ELSE S2
    IN  IF h.err # Nil
        THEN [s |-> S1,
              err |-> IF h.err = EOF THEN ErrUnexpectedEOF ELSE h.err]
        ELSE IF c = "error" THEN [s |-> S1, err |-> errChunkType]
        ELSE IF c = "stop" THEN [s |-> S2, err |-> EOF]
        ELSE IF uncompressed(h.hdr.ctype)
        THEN [s |-> started(S, [S3 EXCEPT
                                  !.ur = IF S3.ur.open
                                         THEN Reopen(S3.ur, h.hdr.size)
                                         ELSE newUncompressedReader(h.hdr.size),
                                  !.chunkReader = "ur"], h.hdr),
              err |-> Nil]
        ELSE [s |-> started(S, [S3 EXCEPT
                                  !.decoder = NewDecoder(chunkState(S3, h.hdr),
                                                         h.hdr.size),
                                  !.chunkReader = "decoder"], h.hdr),
              err |-> Nil]

\* ur.Dict.Available()
dictAvailable(S) == MaxDictCap - Len(S.dict)

\* (ur *uncompressedReader) fill()
fill(S) ==
    LET k == Min(dictAvailable(S), Min(S.ur.N, Len(S.in)))
        S1 == [S EXCEPT !.dict = @ \o Take(S.in, k), !.in = Drop(@, k),
                        !.ur.N = @ - k, !.dictHead = @ + k]
        S2 == IF S.ur.eof THEN S ELSE [S1 EXCEPT !.ur.eof = TRUE]
    IN  IF ~S.ur.eof /\ k = dictAvailable(S) THEN [s |-> S1, err |-> Nil]
        ELSE IF ~S.ur.eof /\ k > 0 THEN [s |-> S2, err |-> Nil]
        ELSE [s |-> S2,
              err |-> IF S2.ur.N # 0 THEN ErrUnexpectedEOF ELSE EOF]

\* (ur *uncompressedReader) Read(p), len(p) = m, from the loop on
RECURSIVE urLoop(_, _, _)
urLoop(S, m, got) ==
    LET k == Min(m - Len(got), Len(S.dict))
        got1 == got \o Take(S.dict, k)
        S1 == [S EXCEPT !.dict = Drop(@, k)]
        f == fill(S1)
    IN  IF Len(got1) >= m THEN [s |-> S1, data |-> got1, err |-> Nil]
        ELSE IF f.err # Nil
        THEN [s |-> [f.s EXCEPT !.ur.err = f.err], data |-> got1,
              err |-> f.err]
        ELSE urLoop(f.s, m, got1)

urRead(S, m) ==
    IF S.ur.err # Nil THEN [s |-> S, data |-> <<>>, err |-> S.ur.err]
    ELSE urLoop(S, m, <<>>)

\* (d *lzma.Decoder) Read(p): the chunk's bytes, io.EOF at its end, and
\* io.ErrUnexpectedEOF when the input ends before it.
decoderRead(S, m) ==
    LET k == Min(m, Min(S.decoder.N, Len(S.in)))
        S1 == [S EXCEPT !.in = Drop(@, k), !.decoder.N = @ - k,
                        !.decoder.State.used = @ + k, !.dictHead = @ + k]
    IN  [s |-> S1, data |-> Take(S.in, k),
         err |-> IF k = m THEN Nil
                 ELSE IF S1.decoder.N = 0 THEN EOF ELSE ErrUnexpectedEOF]

\* r.chunkReader.Read(p)
chunkReaderRead(S, m) ==
    IF S.chunkReader = "ur" THEN urRead(S, m) ELSE decoderRead(S, m)

\* (r *Reader) Read(p), len(p) = m, from the loop on
RECURSIVE readLoop(_, _, _, _)
readLoop(S, m, got, g) ==
    LET x == chunkReaderRead(S, m - Len(got))
        got1 == got \o x.data
        y == IF x.err = EOF THEN startChunk(x.s, g)
             ELSE [s |-> x.s, err |-> x.err]
    IN  IF Len(got) >= m THEN [s |-> S, data |-> got, err |-> Nil]
        ELSE IF y.err # Nil
        THEN [s |-> [y.s EXCEPT !.err = y.err], data |-> got1, err |-> y.err]
        ELSE IF x.data = <<>>
        THEN [s |-> y.s, data |-> got1, err |-> errNoData]
        ELSE readLoop(y.s, m, got1, g)

Read(S, m, g) ==
    IF S.err # Nil THEN [s |-> S, data |-> <<>>, err |-> S.err]
    ELSE readLoop(S, m, <<>>, g)

\* (r *Reader) EOS()
EOS == c2.cstate = "stop"

\* NewReader(lzma2, dictCap): the reader, or no reader and an error
NewReader(z) ==
    LET y == startChunk([NoReader2 EXCEPT !.open = TRUE, !.in = z], "bad")
    IN  IF y.err = Nil THEN [r |-> y.s, err |-> Nil, hdrEOF |-> FALSE]
        ELSE IF y.err = EOF
        THEN [r |-> [y.s EXCEPT !.err = EOF], err |-> Nil,
              hdrEOF |-> y.s.hdrEOF]
        ELSE [r |-> NoReader2, err |-> y.err, hdrEOF |-> y.s.hdrEOF]

CallChunkRead ==
    /\ c2.open /\ c2calls < MaxChunkReads
    /\ \E m \in 1..MaxReadLen, g \in HeaderGuesses :
         LET x == Read(c2, m, g) IN
         /\ c2' = x.s
         /\ c2out' = c2out \o [i \in 1..Len(x.data) |-> x.data[i].b]
         /\ c2ret' = [op |-> "Read", n |-> Len(x.data), err |-> x.err,
                      ferr |-> IF c2ret.ferr = Nil THEN x.err
                               ELSE c2ret.ferr,
                      late |-> c2ret.ferr # Nil,
                      hdrEOF |-> x.s.hdrEOF]
    /\ c2calls' = c2calls + 1
    /\ UNCHANGED <<c2z, wvars, rvars, lvars, bvars, pvars, xvars>>

\* ------------------------------------------------- the reader's inputs
Shapes2 == [ctype : ChunkTypes, size : 1..MaxChunkLen]

\* The tokens of the chunks of the given shapes, the payload being the
\* bytes from+1, from+2, ... and the properties byte of a header that has
\* one being from+1
RECURSIVE Tokens(_, _)
Tokens(shapes, from) ==
    IF shapes = <<>> THEN <<>>
    ELSE <<Hdr(Head(shapes).ctype, Head(shapes).size,
               IF Head(shapes).ctype \in {"cLRN", "cLRND"}
               THEN from + 1 ELSE 0)>>
         \o [i \in 1..Head(shapes).size |-> [t |-> "byte", b |-> from + i]]
         \o Tokens(Tail(shapes), from + Head(shapes).size)

\* Whole chunk sequences of every shape with up to MaxChunkBytes payload
\* bytes, without an end-of-stream chunk.
ChunkSeqs ==
    {Tokens(sh, 0) :
        sh \in {x \in SeqsOf(Shapes2, 0, MaxChunkBytes) :
                   TotalSize(x) <= MaxChunkBytes}}

\* An input with its last byte removed.
Truncated(z) == Take(z, Len(z) - 1)

\* Chunk sequences with and without end-of-stream chunk, and the chunk
\* sequences that have lost their last byte.
Inputs2 ==
    ChunkSeqs \cup {z \o <<EOSToken>> : z \in ChunkSeqs}
              \cup {Truncated(z) : z \in ChunkSeqs \ {<<>>}}

InitC ==
    /\ WriterOff /\ ReaderIs(ReaderOff) /\ LzmaOff /\ BwOff /\ VerifyOff /\ PureOff
    /\ c2z \in Inputs2
    /\ c2 = NewReader(c2z).r
    /\ c2out = <<>>
    /\ c2ret = [NoReturn2 EXCEPT !.op = "NewReader",
                                 !.err = NewReader(c2z).err,
                                 !.hdrEOF = NewReader(c2z).hdrEOF]
    /\ c2calls = 0

NextC == CallChunkRead

SpecC == InitC /\ [][NextC]_vars

\* C12: once Read of a reader has returned a non-nil error, every later
\* Read call on that reader returns the same error with n = 0, whichever
\* error it was, "Reader doesn't get data" of lzma2.Reader included.
C12_ErrorLatched ==
    (c2ret.op = "Read" /\ c2ret.late)
      => (c2ret.err = c2ret.ferr /\ c2ret.n = 0)

\* C13: an error inside a worker that compresses a task (a failed chunk
\* writer init or a flush failure other than cancellation) is forwarded
\* through the error channel and returned by the next Write, Flush or
\* Close; it does not abort the process.
C13_WorkerErrorForwarded == ~Panicked

\* C14: in the multi-worker reader, once Read has surfaced an error other
\* than io.EOF (a worker's decode error or a stream-splitting error) the
\* shared context is cancelled, so that the generator and the workers
\* exit even if Close is never called.
C14_ErrorCancels ==
    (MTR /\ rd.pc = "idle" /\ rlast.op = "Read"
         /\ rlast.err \notin {Nil, EOF})
      => rctxDone

\* Close has returned, or Write or Flush has returned an error.
WriterDone ==
    /\ wcfg.Workers > 1
    /\ caller.pc = "idle"
    /\ \/ lastRet.op = "Close"
       \/ lastRet.op \in {"Write", "Flush"} /\ lastRet.err # Nil

\* No goroutine of the writer is left: the output goroutine and every
\* worker that was started have returned, or the process has been aborted.
AllExited ==
    \/ Panicked
    \/ /\ og.pc = "exit"
       /\ \A i \in 1..MaxWorkers : wk[i].st \in {"none", "exit"}

\* C15: in the multi-worker writer, once Close has returned, or Write or
\* Flush has returned an error, the shared context is cancelled and every
\* worker and the output goroutine eventually terminate.
C15_GoroutinesTerminate ==
    /\ [](WriterDone => ctxDone)
    /\ (WriterDone ~> AllExited)

\* Close has returned nil after two workers were started, and both
\* workers and the output goroutine have returned.
C15_Witness ==
    /\ WriterDone /\ lastRet.op = "Close" /\ lastRet.err = Nil
    /\ og.pc = "exit"
    /\ \A i \in 1..MaxWorkers : wk[i].st = "exit"

\* C16: every write to the sink of the multi-worker writer, the
\* compressed blobs and the stream terminator alike, is issued by the
\* output goroutine, never by a worker or by the caller of Write, Flush or
\* Close.
C16_OnlyOutputWrites ==
    wcfg.Workers > 1 => \A i \in 1..Len(sinkBy) : sinkBy[i] = "output"

\* C16 as the code has it: every compressed blob is written to the sink
\* by the output goroutine; the stream terminator, and nothing else, is
\* written by the goroutine calling Close, and only while the output
\* goroutine is not about to write.
C16_SinkWriters ==
    wcfg.Workers > 1 =>
      /\ \A i \in 1..Len(sink) :
            sinkBy[i] = IF sink[i] = EOSChunk THEN "caller" ELSE "output"
      /\ caller.pc = "c_zero" => og.pc # "write"

\* Close has returned nil: two blobs written by the output goroutine are
\* followed by the terminator written by the caller.
C16_Witness ==
    /\ wcfg.Workers > 1 /\ closedNil
    /\ Len(sink) >= 3
    /\ sinkBy[1] = "output" /\ sinkBy[2] = "output"
    /\ sinkBy[Len(sink)] = "caller"

\* Chunk j of z ends a run: a dictionary reset behind at least one chunk,
\* or the end-of-stream chunk.
RunEnd(z, j) ==
    \/ z[j].control = "cEOS"
    \/ z[j].control \in {"cUD", "cCSPD"} /\ j > 1

\* The run that starts z grows beyond size bytes before it ends.
Exceeds(z, size) ==
    \E j \in 1..Len(z) :
       /\ \A i \in 1..j : ~RunEnd(z, i)
       /\ Len(PayloadOf(Take(z, j))) > size

\* C17: a run of chunks goes to a worker as a parallel task only if it
\* consists of whole chunks, its uncompressed size is at most
\* WorkerBufferSize and is the task's declared size, and a dictionary
\* reset chunk or the end-of-stream chunk follows it. When the run grows
\* beyond WorkerBufferSize first, no worker task is made of it: the whole
\* remainder of the stream, the buffered chunks and then the unread
\* input, goes to one serial chunk reader, and no task follows.
C17_SplitStream ==
    [][Len(rtasks') > Len(rtasks) =>
         LET t == rtasks'[Len(rtasks')] IN
         /\ gen'.pc = "tsk" =>
               /\ t.z = Take(rin, Len(t.z))
               /\ rin' = Drop(rin, Len(t.z))
               /\ t.size = Len(PayloadOf(t.z))
               /\ t.size <= rcfg.WorkerBufferSize
               /\ gen'.w = t.z /\ gen'.size = t.size
               /\ rin' # <<>>
               /\ Head(rin').control \in {"cUD", "cCSPD", "cEOS"}
         /\ Exceeds(rin, rcfg.WorkerBufferSize) =>
               /\ gen'.pc = "ser_rch"
               /\ t.size < 0
               /\ t.z = rin /\ gen'.w = rin
         /\ Len(rtasks) > 0 => rtasks[Len(rtasks)].size >= 0]_vars

\* Two runs of one chunk each went to workers as parallel tasks and Read
\* has returned the bytes of both.
C17_Witness ==
    /\ MTR /\ Len(rtasks) = 2
    /\ rtasks[1].size = 1 /\ rtasks[2].size = 1
    /\ rout = <<1, 2>>

\* z consists of whole chunks in an order the chunk state machine
\* accepts from cstate on, without an end-of-stream chunk.
RECURSIVE Legal(_, _)
Legal(cstate, z) ==
    IF z = <<>> THEN TRUE
    ELSE /\ Head(z).t = "hdr"
         /\ Head(z).ctype # "cEOS"
         /\ next(cstate, Head(z).ctype) # "error"
         /\ Len(z) > Head(z).size
         /\ \A i \in 2..(1 + Head(z).size) : z[i].t = "byte"
         /\ Legal(next(cstate, Head(z).ctype), Drop(z, 1 + Head(z).size))

\* C18: decoding a valid LZMA2 stream that has lost its last byte, the
\* 0x00 terminator, never ends with a clean io.EOF; it ends with
\* io.ErrUnexpectedEOF or a corruption error.
C18_TruncatedNeverEOF ==
    (Legal("start", c2z) /\ c2ret.op = "Read") => c2ret.err # EOF

PropertiesVerify(p) ==
    IF ~(0 <= p.LC /\ p.LC <= 8) THEN "lzma: LC out of range 0..8"
    ELSE IF ~(0 <= p.LP /\ p.LP <= 4) THEN "lzma: LP out of range 0..4"
    ELSE IF ~(0 <= p.PB /\ p.PB <= 4) THEN "lzma: PB out of range 0..4"
    ELSE Nil

\* (h params) Verify(): a uint32 dictSize never exceeds math.MaxInt where
\* int has 64 bits
paramsVerify(h) ==
    IF h.dictSize < minDictSize THEN "lzma: dictSize is too small"
    ELSE PropertiesVerify(h)

CallPropertiesVerify ==
    /\ vret.props = "none"
    /\ vret' = [vret EXCEPT !.props = PropertiesVerify(vin)]
    /\ UNCHANGED <<vin, wvars, rvars, lvars, bvars, cvars, xvars>>

CallParamsVerify ==
    /\ vret.params = "none"
    /\ vret' = [vret EXCEPT !.params = paramsVerify(vin)]
    /\ UNCHANGED <<vin, wvars, rvars, lvars, bvars, cvars, xvars>>

ParamsValues ==
    [LC : (0 - 1)..MaxLC, LP : (0 - 1)..MaxLP, PB : (0 - 1)..MaxPB,
     dictSize : 0..MaxHeaderDictSize]

InitV ==
    /\ WriterOff /\ ReaderIs(ReaderOff) /\ LzmaOff /\ BwOff /\ ChunksOff
    /\ PureOff
    /\ vin \in ParamsValues
    /\ vret = NoVerify

NextV == CallPropertiesVerify \/ CallParamsVerify

SpecV == InitV /\ [][NextV]_vars

\* C20: every properties triple that Properties.Verify accepts, and so
\* every one that the header check params.Verify accepts, satisfies
\* 0 <= LC <= 8, 0 <= LP <= 4, 0 <= PB <= 4 and LC + LP <= 4.
C20_VerifyRejects ==
    LET InRange == /\ 0 <= vin.LC /\ vin.LC <= 8
                   /\ 0 <= vin.LP /\ vin.LP <= 4
                   /\ 0 <= vin.PB /\ vin.PB <= 4
                   /\ vin.LC + vin.LP <= 4
    IN  /\ vret.props = Nil => InRange
        /\ vret.params = Nil => InRange

\* =========================================================== Parameters
\* verifyProperties: the ranges of LC, LP and PB, and LC + LP <= 4
verifyProperties(LC, LP, PB) ==
    IF ~(0 <= LC /\ LC <= 8) THEN "lzma: LC out of range"
    ELSE IF ~(0 <= LP /\ LP <= 4) THEN "lzma: LP out of range"
    ELSE IF LC + LP > 4 THEN "lzma: sum of LC and LP exceeds 4"
    ELSE IF ~(0 <= PB /\ PB <= 4) THEN "lzma: PB out of range"
    ELSE Nil

normalizeDictSize(p) ==
    LET d == IF p.DictSize = 0 THEN DefaultDictSize ELSE p.DictSize
    IN  [p EXCEPT !.DictSize = IF d < MinDictSize THEN MinDictSize ELSE d]

\* normalizeDictSize, then normalizeReaderExtraBufSize
normalizeReaderSizes(p) ==
    LET q == normalizeDictSize(p)
    IN  [q EXCEPT !.ExtraBufSize = IF @ < 0 THEN 0 ELSE @]

\* normalizeDictSize, then normalizeWriterExtraBufSize
normalizeWriterSizes(p) ==
    LET q == normalizeDictSize(p)
    IN  [q EXCEPT !.ExtraBufSize = IF @ <= 0 THEN defaultExtraBufSize ELSE @]

\* (p *Parameters) Verify() of a non-nil p; int has 64 bits, so that the
\* conversions of DictSize and bufSize to int lose nothing
ParametersVerify(p) ==
    LET e == verifyProperties(p.LC, p.LP, p.PB)
    IN  IF e # Nil THEN e
        ELSE IF ~(MinDictSize <= p.DictSize /\ p.DictSize <= MaxDictSize)
        THEN "DictSize out of range"
        ELSE IF p.Size < 0 THEN "Size must not be negative"
        ELSE IF p.ExtraBufSize < 0
        THEN "ExtraBufSize must not be negative"
        ELSE Nil

CallNormalizeReaderSizes ==
    /\ pm.ops = <<>>
    /\ pm' = [pm EXCEPT !.p = normalizeReaderSizes(@),
                        !.ops = <<"normalizeReaderSizes">>]
    /\ UNCHANGED <<wvars, rvars, lvars, bvars, cvars, pvars, w2, codec>>

CallNormalizeWriterSizes ==
    /\ pm.ops = <<>>
    /\ pm' = [pm EXCEPT !.p = normalizeWriterSizes(@),
                        !.ops = <<"normalizeWriterSizes">>]
    /\ UNCHANGED <<wvars, rvars, lvars, bvars, cvars, pvars, w2, codec>>

CallParametersVerify ==
    /\ pm.err = "none"
    /\ pm' = [pm EXCEPT !.err = ParametersVerify(pm.p),
                        !.ops = Append(@, "Verify")]
    /\ UNCHANGED <<wvars, rvars, lvars, bvars, cvars, pvars, w2, codec>>

\* Default, and a Parameters value with LC out of range
ParametersValues ==
    [LC : {3, 9}, LP : {0}, PB : {2},
     DictSize : (0 - 1)..MaxParamDictSize, Size : {0 - 1, 0},
     ExtraBufSize : (0 - 1)..MaxParamExtraBuf]

InitP ==
    /\ WriterOff /\ ReaderIs(ReaderOff) /\ LzmaOff /\ BwOff /\ ChunksOff
    /\ VerifyOff
    /\ w2 = [in |-> <<>>, cfg |-> <<>>, ops |-> <<>>, err |-> "none"]
    /\ codec = [on |-> FALSE]
    /\ \E p \in ParametersValues :
           pm = [in |-> p, p |-> p, ops |-> <<>>, err |-> "none"]

NextP ==
    \/ CallNormalizeReaderSizes
    \/ CallNormalizeWriterSizes
    \/ CallParametersVerify

SpecP == InitP /\ [][NextP]_vars

\* C21: a dictionary size below MinDictSize (and not 0, which stands for
\* the default) is MinDictSize after normalizeReaderSizes, and Verify
\* after normalizeWriterSizes returns an error for it.
C21_SmallDictSize ==
    (pm.ops # <<>> /\ pm.in.DictSize < MinDictSize /\ pm.in.DictSize # 0) =>
        /\ pm.ops[1] = "normalizeReaderSizes" => pm.p.DictSize = MinDictSize
        /\ pm.ops = <<"normalizeWriterSizes", "Verify">> => pm.err # Nil

\* ======================================================== Writer2Config
\* The LZ configuration is nil or the sequence buffer configuration
\* BufferConfig() points to; a size of 0 is a size not set.
\* lz.Config(params): a configuration of the window size of params
lzConfig(WindowSize) ==
    [nil |-> FALSE, WindowSize |-> WindowSize, ShrinkSize |-> 0,
     BufferSize |-> 0]

\* cfg.LZ == nil
lzNil == [nil |-> TRUE, WindowSize |-> 0, ShrinkSize |-> 0, BufferSize |-> 0]

\* cfg.LZ.ApplyDefaults(): sizes not set get their defaults, sizes set stay
lzApplyDefaults(sb) ==
    LET w == IF sb.WindowSize = 0 THEN lzDefaultWindowSize ELSE sb.WindowSize
    IN  [nil |-> FALSE, WindowSize |-> w,
         ShrinkSize |-> IF sb.ShrinkSize = 0 THEN w ELSE sb.ShrinkSize,
         BufferSize |-> IF sb.BufferSize = 0 THEN 2 * w ELSE sb.BufferSize]

\* cfg.LZ.Verify(): the shrink size is not smaller than the window size
\* and both fit into the buffer
lzVerify(sb) ==
    IF /\ 0 < sb.WindowSize /\ sb.WindowSize <= sb.ShrinkSize
       /\ sb.ShrinkSize <= sb.BufferSize
    THEN Nil ELSE "lz: sequence buffer configuration inconsistent"

fixSBConfig(sb, windowSize) ==
    LET b == 2 * windowSize IN
    [nil |-> FALSE, WindowSize |-> windowSize,
     ShrinkSize |-> IF windowSize < minShrinkSize THEN minShrinkSize
                    ELSE windowSize,
     BufferSize |-> IF b < minBufferSize THEN minBufferSize ELSE b]

\* An ApplyDefaults in which DictSize does not override the window size of
\* a supplied LZ configuration.
ApplyDefaultsKeepsWindow(cfg, procs) ==
    LET lz0 == IF cfg.LZ.nil
               THEN lzConfig(IF cfg.DictSize > 0 THEN cfg.DictSize ELSE 0)
               ELSE cfg.LZ
        lz1 == lzApplyDefaults(lz0)
    IN  [cfg EXCEPT !.LZ = fixSBConfig(lz1, lz1.WindowSize)]

\* (cfg *Writer2Config) ApplyDefaults(), procs being runtime.GOMAXPROCS(0)
ApplyDefaults(cfg, procs) ==
    LET lz0 == IF cfg.LZ.nil
               THEN lzConfig(IF cfg.DictSize > 0 THEN cfg.DictSize ELSE 0)
               ELSE IF cfg.DictSize > 0
               THEN [cfg.LZ EXCEPT !.WindowSize = cfg.DictSize]
               ELSE cfg.LZ
        lz1 == lzApplyDefaults(lz0)
        lz2 == fixSBConfig(lz1, lz1.WindowSize)
        props == IF cfg.Properties = [LC |-> 0, LP |-> 0, PB |-> 0]
                    /\ ~cfg.ZeroProperties
                 THEN [LC |-> 3, LP |-> 0, PB |-> 2] ELSE cfg.Properties
        nw == IF cfg.Workers = 0 THEN procs ELSE cfg.Workers
        dflt == cfg.WorkerBufferSize = 0 /\ nw > 1
    IN  [cfg EXCEPT
           !.Properties = props,
           !.Workers = nw,
           !.WorkerBufferSize = IF dflt THEN defaultWorkerBufferSize ELSE @,
           !.LZ = IF dflt /\ defaultWorkerBufferSize > lz2.BufferSize
                  THEN [lz2 EXCEPT !.BufferSize = defaultWorkerBufferSize]
                  ELSE lz2]

\* (cfg *Writer2Config) Verify() of a non-nil cfg
Writer2ConfigVerify(cfg) ==
    IF cfg.LZ.nil THEN "lzma: Writer2Config field LZCfg is nil"
    ELSE IF lzVerify(cfg.LZ) # Nil THEN lzVerify(cfg.LZ)
    ELSE IF PropertiesVerify(cfg.Properties) # Nil
    THEN PropertiesVerify(cfg.Properties)
    ELSE IF cfg.Workers < 0 THEN "lzma: Worker must be larger than 0"
    ELSE IF cfg.Workers > 1 /\ cfg.WorkerBufferSize <= 0
    THEN "lzma: WorkerBufferSize must be greater than 0"
    ELSE IF cfg.Workers > 1 /\ cfg.WorkerBufferSize > cfg.LZ.BufferSize
    THEN "lzma: sequence buffer size must be less or equal than worker"
    ELSE Nil

CallApplyDefaults ==
    /\ w2.ops = <<>>
    /\ \E procs \in 1..MaxProcs :
         w2' = [w2 EXCEPT !.cfg = ApplyDefaults(@, procs),
                          !.ops = <<"ApplyDefaults">>]
    /\ UNCHANGED <<wvars, rvars, lvars, bvars, cvars, pvars, pm, codec>>

CallWriter2ConfigVerify ==
    /\ w2.err = "none"
    /\ w2' = [w2 EXCEPT !.err = Writer2ConfigVerify(w2.cfg),
                        !.ops = Append(@, "Verify")]
    /\ UNCHANGED <<wvars, rvars, lvars, bvars, cvars, pvars, pm, codec>>

\* Configurations with nothing, the default or an LC out of range as
\* Properties, without an LZ configuration or with one of lz.Config.
Writer2Configs ==
    [DictSize : 0..MaxCfgDictSize,
     Properties : {[LC |-> 0, LP |-> 0, PB |-> 0],
                   [LC |-> 9, LP |-> 0, PB |-> 0]},
     ZeroProperties : BOOLEAN,
     Workers : 0..MaxCfgWorkers,
     WorkerBufferSize : {0, 1, defaultWorkerBufferSize + 1},
     LZ : {lzNil} \cup {lzConfig(w) : w \in 0..MaxCfgWindow}]

InitA ==
    /\ WriterOff /\ ReaderIs(ReaderOff) /\ LzmaOff /\ BwOff /\ ChunksOff
    /\ VerifyOff
    /\ pm = [in |-> <<>>, p |-> <<>>, ops |-> <<>>, err |-> "none"]
    /\ codec = [on |-> FALSE]
    /\ \E cfg \in Writer2Configs :
           w2 = [in |-> cfg, cfg |-> cfg, ops |-> <<>>, err |-> "none"]

NextA == CallApplyDefaults \/ CallWriter2ConfigVerify

SpecA == InitA /\ [][NextA]_vars

\* C23: after ApplyDefaults a DictSize above 0 is the window size of the LZ
\* configuration, whether none was supplied or one of another window size;
\* and a configuration in which nothing but DictSize and LZ was set passes
\* Verify after ApplyDefaults.
C23_DictSizeIsWindowSize ==
    (w2.ops # <<>> /\ w2.ops[1] = "ApplyDefaults") =>
        /\ w2.in.DictSize > 0 => w2.cfg.LZ.WindowSize = w2.in.DictSize
        /\ ( /\ w2.ops = <<"ApplyDefaults", "Verify">>
             /\ w2.in.Properties = [LC |-> 0, LP |-> 0, PB |-> 0]
             /\ ~w2.in.ZeroProperties
             /\ w2.in.Workers = 0 /\ w2.in.WorkerBufferSize = 0 )
           => w2.err = Nil

\* ApplyDefaults and Verify were called on a configuration of a DictSize
\* and of an LZ configuration of another window size, on several CPUs.
C23_Witness ==
    /\ w2.ops = <<"ApplyDefaults", "Verify">>
    /\ w2.in.DictSize > 0 /\ ~w2.in.LZ.nil
    /\ w2.in.LZ.WindowSize \notin {0, w2.in.DictSize}
    /\ w2.in.Workers = 0 /\ w2.in.WorkerBufferSize = 0
    /\ w2.cfg.Workers > 1
    /\ w2.err = Nil

\* C24: every chunk start does the resets of its chunk type and no others.
\* The dictionary is emptied by cUD and cLRND and otherwise left as it is.
\* The probability state is new, of the properties of the header, for cLRN,
\* cLRND and the first compressed chunk; it is reset with the properties
\* it has for a later cLR; it is left as it is by a later cL and by the
\* uncompressed chunks.
C24_ChunkResets ==
    \A i \in 1..Len(c2.starts) :
        LET e == c2.starts[i]
            lzma == ~uncompressed(e.ctype)
        IN  /\ e.ctype \in {"cUD", "cLRND"} => e.dict1 = 0
            /\ e.ctype \notin {"cUD", "cLRND"} => e.dict1 = e.dict0
            /\ (lzma /\ (e.first \/ e.ctype \in {"cLRN", "cLRND"}))
                  => e.st1 = [props |-> e.props, used |-> 0]
            /\ (lzma /\ ~e.first /\ e.ctype = "cLR")
                  => e.st1 = [props |-> e.st0.props, used |-> 0]
            /\ ((lzma /\ ~e.first /\ e.ctype = "cL") \/ ~lzma)
                  => e.st1 = e.st0

\* A state-reset chunk has started with a filled dictionary after bytes
\* were decoded under the properties of an earlier chunk.
C24_Witness ==
    \E i \in 1..Len(c2.starts) :
        /\ c2.starts[i].ctype = "cLR" /\ ~c2.starts[i].first
        /\ c2.starts[i].dict0 > 0 /\ c2.starts[i].st0.used > 0
        /\ c2.starts[i].st0.props > 0

\* The input is a sequence of whole chunks in an order the chunk state
\* machine accepts, with or without an end-of-stream chunk at its end.
ValidChunkSeq ==
    \/ Legal("start", c2z)
    \/ /\ c2z # <<>> /\ c2z[Len(c2z)] = EOSToken
       /\ Legal("start", Take(c2z, Len(c2z) - 1))

\* C25: on a valid chunk sequence no Read of lzma2.Reader returns the
\* error "Reader doesn't get data": a Read that begins exactly at the end
\* of a chunk goes on with the next chunk and returns its data.
C25_NoDataAtBoundary ==
    (ValidChunkSeq /\ c2ret.op = "Read") => c2ret.err # errNoData

\* The payload bytes of the chunks of the input, in order
Payload2 ==
    LET bs == SelectSeq(c2z, LAMBDA t : t.t = "byte")
    IN  [i \in 1..Len(bs) |-> bs[i].b]

\* C26: on a valid chunk sequence the bytes Read has delivered are the
\* payload bytes of the chunks in order, and Read reports an end or an
\* error (other than "Reader doesn't get data") only when every chunk,
\* an uncompressed chunk after an uncompressed chunk included, has
\* delivered all the bytes its header declares.
C26_DeclaredBytesDelivered ==
    ValidChunkSeq =>
        /\ IsPrefix(c2out, Payload2)
        /\ (c2ret.op = "Read" /\ c2ret.err \notin {Nil, errNoData})
              => c2out = Payload2

\* The call that returned last, and what it found when it began.
LastCall == hist[Len(hist)]

Returned == MT /\ caller.pc = "idle" /\ hist # <<>>

\* C27: in the multi-worker writer every Write, Flush and Close that
\* begins after a write of a blob to the sink has failed returns a non-nil
\* error.
C27_LaterCallsFail ==
    (Returned /\ LastCall.after # "none") => lastRet.err # Nil

\* C27 as the code has it: after a failed write of a blob every Flush and
\* every Close returns a non-nil error, and so does every Write that
\* begins once the output goroutine has sent the error; Close returns nil
\* only with the blobs of all accepted bytes and the terminator in the
\* sink; and between calls a latched error means a cancelled context.
C27_SinkFailureSurfaces ==
    /\ (Returned /\ LastCall.after = "report") => lastRet.err # Nil
    /\ (Returned /\ LastCall.after = "failure"
                 /\ LastCall.op \in {"Flush", "Close"}) => lastRet.err # Nil
    /\ (Returned /\ SinkFailed /\ lastRet.op \in {"Flush", "Close"})
          => lastRet.err # Nil
    /\ (MT /\ closedNil)
          => (~SinkFailed /\ sink = Blobs(submitted) \o <<EOSChunk>>
                          /\ PayloadOf(sink) = accepted)
    /\ (MT /\ caller.pc = "idle" /\ werr # Nil) => ctxDone

\* A blob has failed to reach the sink, the error was sent, and a Write
\* that began after that has returned it.
C27_Witness ==
    /\ Returned /\ LastCall.op = "Write" /\ LastCall.after = "report"
    /\ lastRet.err = errSink /\ werr = errSink /\ ctxDone

NoSeq == [LitLen |-> 0, Aux |-> 0, MatchLen |-> 0, Offset |-> 0]

\* (r *reader) readSeq() on the state st = [state, rep], every decodeBit
\* and every Decode of a sub-codec returning what the encoder wrote at that
\* place of the stream. read is the set of places readSeq has read; to
\* read a place the encoder has not written is the error "desync".
readSeqBits(st, sym) ==
    LET r == st.rep
        simple == sym.isRep = 0
        g0 == sym.isRepG0 = 0
        short == g0 /\ sym.isRepG0Long = 0
        g1 == sym.isRepG1 = 0
        g2 == sym.isRepG2 = 0
        read == IF sym.isMatch = 0 THEN {"isMatch", "lit"}
                ELSE IF simple THEN {"isMatch", "isRep", "len", "dist"}
                ELSE IF short
                THEN {"isMatch", "isRep", "isRepG0", "isRepG0Long"}
                ELSE IF g0
                THEN {"isMatch", "isRep", "isRepG0", "isRepG0Long",
                      "repLen"}
                ELSE IF g1
                THEN {"isMatch", "isRep", "isRepG0", "isRepG1", "repLen"}
                ELSE {"isMatch", "isRep", "isRepG0", "isRepG1", "isRepG2",
                      "repLen"}
        dist == IF simple THEN sym.dist
                ELSE IF g0 THEN r[1]
                ELSE IF g1 THEN r[2]
                ELSE IF g2 THEN r[3] ELSE r[4]
        rep1 == IF simple THEN <<dist, r[1], r[2], r[3]>>
                ELSE IF g0 THEN r
                ELSE IF g1 THEN <<dist, r[1], r[3], r[4]>>
                ELSE IF g2 THEN <<dist, r[1], r[2], r[4]>>
                ELSE <<dist, r[1], r[2], r[3]>>
        kind == IF sym.isMatch = 0 THEN "literal"
                ELSE IF simple THEN "match"
                ELSE IF short THEN "shortrep" ELSE "rep"
    IN
    IF \E f \in read : sym[f] = 0 - 1
    THEN [err |-> "desync", st |-> st, seq |-> NoSeq, read |-> read]
    ELSE IF sym.isMatch = 0
    THEN [err |-> Nil,
          st |-> [st EXCEPT !.state = updateState(kind, @)],
          seq |-> [NoSeq EXCEPT !.LitLen = 1, !.Aux = sym.lit],
          read |-> read]
    ELSE IF simple
    THEN [err |-> IF dist = eosDist THEN errEOS ELSE Nil,
          st |-> [state |-> updateState(kind, st.state), rep |-> rep1],
          seq |-> IF dist = eosDist THEN NoSeq
                  ELSE [NoSeq EXCEPT !.MatchLen = sym.len + minMatchLen,
                                     !.Offset = dist + minDistance],
          read |-> read]
    ELSE IF short
    THEN [err |-> Nil,
          st |-> [st EXCEPT !.state = updateState(kind, @)],
          seq |-> [NoSeq EXCEPT !.MatchLen = 1,
                                !.Offset = dist + minDistance],
          read |-> read]
    ELSE [err |-> Nil,
          st |-> [state |-> updateState(kind, st.state), rep |-> rep1],
          seq |-> [NoSeq EXCEPT !.MatchLen = sym.repLen + minMatchLen,
                                !.Offset = dist + minDistance],
          read |-> read]

NoRead == [op |-> "none"]

\* The encoder writes the operation op: writeLiteral or writeMatch, as
\* writeOp dispatches. A refused operation leaves the codec as it is; the
\* EOS marker is the last operation written.
CallWriteOp ==
    /\ codec.on /\ ~codec.eos /\ Len(codec.stream) < MaxCodecLag
    /\ \E op \in {lit(b) : b \in Bytes}
                 \cup {match(d, l) : d \in 0..MaxCodecDist,
                                     l \in 1..(MaxLength + 1)}
                 \cup {match(maxDistance, MinLength),
                       match(maxDistance + 1, MinLength)} :
          LET e == IF op.kind = "lit" THEN writeLiteral(codec.enc, op)
                   ELSE writeMatch(codec.enc, op)
          IN  codec' =
                IF e.err # Nil THEN [codec EXCEPT !.werr = e.err]
                ELSE [codec EXCEPT
                        !.enc = e.oc, !.werr = Nil,
                        !.eos = (op.distance = maxDistance),
                        !.stream = Append(@, [op |-> op, sym |-> e.sym,
                                              oc |-> e.oc])]
    /\ UNCHANGED <<wvars, rvars, lvars, bvars, cvars, pvars, pm, w2>>

\* The decoder reads the oldest operation not yet read.
CallReadSeq ==
    /\ codec.on /\ codec.stream # <<>>
    /\ LET x == Head(codec.stream)
           d == readSeqBits(codec.dec, x.sym)
       IN  codec' = [codec EXCEPT
                       !.dec = d.st, !.stream = Tail(@),
                       !.last = [op |-> "readSeq", given |-> x.op,
                                 sym |-> x.sym, oc |-> x.oc,
                                 before |-> codec.dec, seq |-> d.seq,
                                 err |-> d.err, read |-> d.read]]
    /\ UNCHANGED <<wvars, rvars, lvars, bvars, cvars, pvars, pm, w2>>

InitO ==
    /\ WriterOff /\ ReaderIs(ReaderOff) /\ LzmaOff /\ BwOff /\ ChunksOff
    /\ VerifyOff
    /\ pm = [in |-> <<>>, p |-> <<>>, ops |-> <<>>, err |-> "none"]
    /\ w2 = [in |-> <<>>, cfg |-> <<>>, ops |-> <<>>, err |-> "none"]
    /\ codec = [on |-> TRUE, enc |-> NewOpCodec, dec |-> NewOpCodec,
                stream |-> <<>>, eos |-> FALSE, werr |-> Nil,
                last |-> NoRead]

NextO == CallWriteOp \/ CallReadSeq

SpecO == InitO /\ [][NextO]_vars

\* The places of the stream the encoder wrote for an operation
Written28(sym) == {f \in DOMAIN sym : sym[f] # 0 - 1}

\* The state and registers the operation given makes of the state and
\* registers s: a literal and a short repetition leave the registers, a
\* simple match moves them along and sets rep0 to distance - 1, a
\* repetition at index g moves the g registers before it along and sets
\* rep0 to the old register g.
Transition(s, given) ==
    LET r == s.rep
        d == given.distance - minDistance
        G == {i \in 1..4 : r[i] = d}
    IN  IF given.kind = "lit"
        THEN [state |-> updateState("literal", s.state), rep |-> r]
        ELSE IF G = {}
        THEN [state |-> updateState("match", s.state),
              rep |-> <<d, r[1], r[2], r[3]>>]
        ELSE IF r[1] = d
        THEN [state |-> updateState(IF given.length = 1 THEN "shortrep"
                                    ELSE "rep", s.state),
              rep |-> r]
        ELSE LET g == CHOOSE i \in G : \A j \in G : i <= j IN
             [state |-> updateState("rep", s.state),
              rep |-> <<r[g]>> \o [i \in 1..3 |-> IF i < g THEN r[i]
                                                  ELSE r[i + 1]]]

\* C28: state-machine closure. readSeq reads exactly the decisions and
\* values writeLiteral or writeMatch wrote for an operation, makes the
\* transition of the operation's kind, and is left with the state and
\* registers the encoder had after writing it; it returns the literal, or
\* the distance and length, the encoder was given, and errEOS for the EOS
\* marker. When the decoder has read all that was written, both sides
\* hold the same (state, rep0, rep1, rep2, rep3).
C28_StateMachineClosure ==
    codec.on =>
      /\ codec.stream = <<>> => codec.dec = codec.enc
      /\ codec.last # NoRead =>
           LET l == codec.last IN
           /\ l.read = Written28(l.sym)
           /\ codec.dec = l.oc
           /\ codec.dec = Transition(l.before, l.given)
           /\ l.err = IF l.given.distance = maxDistance THEN errEOS ELSE Nil
           /\ l.given.kind = "lit"
                 => l.seq = [NoSeq EXCEPT !.LitLen = 1, !.Aux = l.given.b]
           /\ (l.given.kind = "match" /\ l.err = Nil)
                 => l.seq = [NoSeq EXCEPT !.MatchLen = l.given.length,
                                          !.Offset = l.given.distance]

\* The decoder has read a repetition of the fourth register after a
\* literal, that is after four simple matches of different distances and
\* a literal had been written.
C28_Witness ==
    /\ codec.on /\ codec.last # NoRead
    /\ codec.last.given.kind = "match"
    /\ codec.last.sym.isRepG2 = 1
    /\ codec.last.before.state < 7
    /\ codec.last.before.rep[4] # 0
    /\ codec.last.seq.Offset = codec.last.before.rep[4] + minDistance

\* The operations written for data, the EOS marker left out
DataOps == SelectSeq(bw.ops, LAMBDA o : ~o.eos)

RECURSIVE SumLengths(_)
SumLengths(ops) ==
    IF ops = <<>> THEN 0 ELSE Head(ops).op.length + SumLengths(Tail(ops))

\* out with n more bytes, each the byte dist places before it
RECURSIVE CopyMatch(_, _, _)
CopyMatch(out, dist, n) ==
    IF n = 0 THEN out
    ELSE CopyMatch(Append(out, out[Len(out) + 1 - dist]), dist, n - 1)

\* The bytes the operations stand for, after the bytes out; a match that
\* reaches back before the first byte stands for nothing.
RECURSIVE Replay(_, _)
Replay(ops, out) ==
    IF ops = <<>> THEN out
    ELSE IF Head(ops).op.kind = "lit"
    THEN Replay(Tail(ops), Append(out, Head(ops).op.b))
    ELSE IF Head(ops).op.distance > Len(out) THEN <<"none">>
    ELSE Replay(Tail(ops), CopyMatch(out, Head(ops).op.distance,
                                     Head(ops).op.length))

\* The operations written cover the bytes the head of the dictionary has
\* passed, exactly once and in order: each has a length of 1 or more, the
\* lengths add up to the number of bytes passed, and the operations stand
\* for just these bytes; after Close has returned nil no byte is left.
OpsCoverData ==
    /\ \A i \in 1..Len(DataOps) : DataOps[i].op.length >= 1
    /\ SumLengths(DataOps) = bw.encoded
    /\ bw.encoded = bw.end - bw.readable /\ Len(bw.data) = bw.end
    /\ Replay(DataOps, <<>>) = Take(bw.data, bw.encoded)
    /\ bw.closed => bw.readable = 0

TaskStreams ==
    {Payloaded(sh, 0) \o t :
        sh \in SeqsOf([control : {"cU", "cUD", "cCSPD"}, size : {1}],
                      0, MaxTaskChunks),
        t \in {<<>>, <<EOSChunk>>}}

TaskReaderConfigs ==
    [Workers : 1..MaxReadWorkers, WorkerBufferSize : 1..MaxBufferSize]

InitRG ==
    /\ WriterOff /\ LzmaOff /\ BwOff /\ ChunksOff /\ VerifyOff /\ PureOff
    /\ \E z \in TaskStreams, cfg \in TaskReaderConfigs :
         ReaderIs(NewReader2Config(z, cfg))

SpecRG == InitRG /\ [][NextR]_vars

\* C31 -----------------------------------------------------------------
\* Task t has been received from tskCh by a worker.
Handed(t) ==
    \/ \E i \in 1..MaxReadWorkers : rwk[i].id = t
    \/ \E j \in 1..Len(rdone) : rdone[j] = t

\* Read has received the record of task t from r.outCh.
Taken(t) == mtr.task >= t

\* Read has met the io.EOF of the reader of task t and set r.r to nil.
Consumed(t) ==
    \/ mtr.task > t
    \/ mtr.task = t /\ rd.pc # "r_rch" /\ ~mtr.r.open

\* The tasks a worker has received and Read has not yet read to the end.
Outstanding == {t \in 1..Len(rtasks) : Handed(t) /\ ~Consumed(t)}

\* The workers that have decoded a task and not yet delivered its reader.
Holding == {i \in 1..MaxReadWorkers : rwk[i].st = "send"}

\* C31: in the multi-worker reader at most two decode tasks are outstanding
\* whatever Workers is: a task is handed to a worker only after Read has
\* taken the record of the task before it from the output channel, Read
\* takes a record only after it has read the output of the task before it
\* to the end, and so at most two workers hold a decoded task at a time.
C31_TwoTasksOutstanding ==
    MTR =>
      /\ Cardinality(Outstanding) <= 2
      /\ Cardinality(Holding) <= 2
      /\ \A t \in 2..Len(rtasks) :
           /\ Handed(t) => Taken(t - 1)
           /\ Taken(t) => Consumed(t - 1)

\* Three workers run; the second and the third task are decoded and held
\* by two of them while Read waits for the reader of the second task.
C31_Witness ==
    /\ rcfg.Workers = MaxReadWorkers /\ rworkers = MaxReadWorkers
    /\ Outstanding = {2, 3}
    /\ Cardinality(Holding) = 2
    /\ rd.pc = "r_rch" /\ mtr.task = 2

\* ================================================= writeMatch's arguments
\* The encoder alone, with the last call recorded: the operation given,
\* the codec before the call, and the error, the codec and the decisions
\* and values written that the call returned.
NoCall == [op |-> lit(0), before |-> NewOpCodec, err |-> "none",
           oc |-> NewOpCodec, sym |-> NoSym]

\* bw.writeLiteral(l) or bw.writeMatch(m) with the result e
Encoded(op, e) ==
    codec' = [codec EXCEPT
                !.enc = IF e.err # Nil THEN @ ELSE e.oc,
                !.wlast = [op |-> op, before |-> codec.enc, err |-> e.err,
                           oc |-> e.oc, sym |-> e.sym]]

CallWriteLiteral ==
    /\ codec.on
    /\ \E b \in Bytes : Encoded(lit(b), writeLiteral(codec.enc, lit(b)))
    /\ UNCHANGED <<wvars, rvars, lvars, bvars, cvars, pvars, pm, w2>>

\* writeMatch for every distance from below minDistance to MaxMatchDist,
\* for maxDistance and the distance above it, and every length from below
\* MinLength to above MaxLength
CallWriteMatch ==
    /\ codec.on
    /\ \E d \in (0..MaxMatchDist) \cup {maxDistance, maxDistance + 1},
          l \in 0..(MaxLength + 1) :
         \E e \in {writeMatch(codec.enc, match(d, l))} :
            Encoded(match(d, l), e)
    /\ UNCHANGED <<wvars, rvars, lvars, bvars, cvars, pvars, pm, w2>>

InitM ==
    /\ WriterOff /\ ReaderIs(ReaderOff) /\ LzmaOff /\ BwOff /\ ChunksOff
    /\ VerifyOff
    /\ pm = [in |-> <<>>, p |-> <<>>, ops |-> <<>>, err |-> "none"]
    /\ w2 = [in |-> <<>>, cfg |-> <<>>, ops |-> <<>>, err |-> "none"]
    /\ codec = [on |-> TRUE, enc |-> NewOpCodec, wlast |-> NoCall]

NextM == CallWriteLiteral \/ CallWriteMatch

SpecM == InitM /\ [][NextM]_vars

\* The last call was writeMatch.
MatchCall == codec.on /\ codec.wlast.err # "none" /\ codec.wlast.op.kind = "match"

DistanceInRange(m) == minDistance <= m.distance /\ m.distance <= maxDistance

LengthInRange(m) == MinLength <= m.length /\ m.length <= MaxLength

\* A match of length 1 at the distance of rep[0]
ShortRep(m, oc) == m.length = 1 /\ m.distance - minDistance = oc.rep[1]

\* C32: writeMatch returns the distance error for every distance outside
\* minDistance..maxDistance, and for a distance within it the length error
\* for every length outside MinLength..MaxLength but for a match of length
\* 1 at the distance of rep[0], which it accepts as every match with both
\* in range; when it returns an error nothing has been written to the range
\* encoder and the state and the repetition registers are as before.
C32_MatchArguments ==
    MatchCall =>
      LET w == codec.wlast
          m == w.op
      IN  /\ ~DistanceInRange(m) => w.err = "distance out of range"
          /\ (DistanceInRange(m) /\ ~LengthInRange(m)
                /\ ~ShortRep(m, w.before)) => w.err = "length out of range"
          /\ (DistanceInRange(m) /\ (LengthInRange(m)
                                      \/ ShortRep(m, w.before)))
                => w.err = Nil /\ w.sym.isMatch = 1 /\ codec.enc = w.oc
          /\ w.err # Nil => /\ w.sym = NoSym
                            /\ w.oc = w.before
                            /\ codec.enc = w.before

\* A match of length 1 at the distance of rep[1], which is not that of
\* rep[0], has been refused and has left the codec as it was.
C32_Witness ==
    /\ MatchCall
    /\ codec.wlast.op.length = 1
    /\ DistanceInRange(codec.wlast.op)
    /\ codec.wlast.op.distance - minDistance = codec.wlast.before.rep[2]
    /\ codec.wlast.before.rep[1] # codec.wlast.before.rep[2]
    /\ codec.wlast.before.state # 0
    /\ codec.wlast.err = "length out of range"
    /\ codec.enc = codec.wlast.before

\* =================================================== the encoder's matches
\* Writers without size in the header on a sink that does not fail.
LongWriterParams ==
    [SizeInHeader : {FALSE}, Size : {0}, EOS : BOOLEAN, failAt : {0}]

InitBL ==
    /\ WriterOff /\ ReaderIs(ReaderOff) /\ LzmaOff /\ ChunksOff
    /\ VerifyOff /\ PureOff
    /\ \E params \in LongWriterParams : bw = InitWriter(params)
    /\ bret = [len |-> 0, end |-> 0, n |-> 0, err |-> Nil]
    /\ bcalls = 0

NextBL == CallWriterWriteUpTo(MaxLongWrites) \/ CallWriterClose

SpecBL == InitBL /\ [][NextBL]_vars

\* The writer as it was when findOp found operation k of the log: the head
\* of the dictionary is behind the bytes of the operations before it.
AtOp(k) ==
    [data |-> bw.data, end |-> bw.ops[k].end,
     readable |-> bw.ops[k].end - SumLengths(SubSeq(bw.ops, 1, k - 1)),
     oc |-> bw.ops[k].before]

\* The candidate list as it is described: the distances 1 to 8, the
\* offsets of the hash table (none, fewer than four bytes being readable),
\* the distances of the repetition registers 3 to 0.
ListedOffsets(b) ==
    LET head == b.end - b.readable
        near == [i \in 1..8 |-> head - i]
        reps == [j \in 1..4 |-> head - (b.oc.rep[5 - j] + minDistance)]
        in(off) == 0 <= off
    IN  SelectSeq(near, in) \o SelectSeq(reps, in)

\* The operation for the head of b when the match is selected among
\* offsets as described: the longest match, of the longest ones the last
\* of the list; the literal when no offset matches a byte, or when the
\* match has length 1 and is not at the distance of rep[0].
SelectedOp(b, offsets) ==
    LET head == b.end - b.readable
        n == [i \in 1..Len(offsets) |->
                EqualBytes(b, head, offsets[i], MaxLength)]
        longest == CHOOSE l \in 0..MaxLength :
                      /\ \A i \in 1..Len(offsets) : n[i] <= l
                      /\ l > 0 => \E i \in 1..Len(offsets) : n[i] = l
        last == CHOOSE i \in 1..Len(offsets) :
                   /\ n[i] = longest
                   /\ \A j \in (i + 1)..Len(offsets) : n[j] < longest
    IN  IF longest = 0 THEN lit(b.data[head + 1])
        ELSE IF /\ longest = 1
                /\ offsets[last] # head - (b.oc.rep[1] + minDistance)
        THEN lit(b.data[head + 1])
        ELSE match(head - offsets[last], longest)

\* C33: bestMatch returns the longest match among the candidate offsets,
\* of the longest ones the last in the list potentialOffsets builds, which
\* holds the distances 1 to 8, then the offsets of the hash table, then
\* the distances of rep[3] down to rep[0], so that rep[0] wins every tie;
\* it reports no match when no candidate matches a byte (and for a match
\* of length 1 that is not at the distance of rep[0]). Every operation the
\* encoder has written is the one this selection gives.
C33_BestMatchSelection ==
    bw.open =>
      \A k \in 1..Len(bw.ops) :
         ~bw.ops[k].eos
            => bw.ops[k].op = SelectedOp(AtOp(k), ListedOffsets(AtOp(k)))

====
